---- MODULE Spec2Model ----
(***************************************************************************)
(* Model of gossipd/routing.c: the gossip ingest state machine, the graph  *)
(* store (nodes, channels, half channels), the pending store, routing      *)
(* failures, pruning and the route search.                                *)
(*                                                                         *)
(* Pointers are modelled by keys: a struct node by its id, a struct chan   *)
(* by its short_channel_id.  An optional pointer (NULL or an object) is a  *)
(* sequence of length 0 or 1.  Messages are records of their wire fields;  *)
(* a signature is modelled by the key that made it and is valid for a key  *)
(* iff it was made by that key.                                            *)
(***************************************************************************)
EXTENDS Integers, Sequences, FiniteSets, TLC

VARIABLES
    nodes,                  \* rstate->nodes: node id -> struct node
    chanmap,                \* rstate->chanmap: scid -> struct chan
    pending_cannouncement,  \* rstate->pending_cannouncement (list, in order)
    pending_node_map,       \* rstate->pending_node_map: node id -> its entries, in lookup order
    now,                    \* time_now().ts.tv_sec
    aborted,                \* the process has aborted
    sent,                   \* replace_broadcast calls made by the last operation
    last                    \* the last operation: name, arguments, result, handler outcomes

vars == <<nodes, chanmap, pending_cannouncement, pending_node_map,
          now, aborted, sent, last>>

-----------------------------------------------------------------------------
(* Bounds of the model *)

MaxNode == 3
MaxScid == 2
\* rstate->prune_timeout, as given to new_routing_state
PruneTimeout == 4
\* the clock at construction
Now0 == 100
\* pending_node_map entries are never freed on a failed chain check: cap them
MaxPna == 4

NodeIds == 1..MaxNode
Scids == 1..MaxScid

\* rstate->local_id and rstate->chain_hash, as given to new_routing_state:
\* the local node is the one of least id
LocalId == CHOOSE n \in NodeIds : \A m \in NodeIds : n <= m
ChainHash == "main"

\* Instants the clock takes: construction, and when a channel created at
\* construction and not updated since has become stale
Instants == {Now0, Now0 + PruneTimeout + 2}

-----------------------------------------------------------------------------
(* Generic helpers *)

None == <<>>
Some(x) == <<x>>

Min(a, b) == IF a < b THEN a ELSE b
Max(a, b) == IF a < b THEN b ELSE a

\* Index of the first occurrence of x in s, 0 when absent
RECURSIVE IndexFrom(_, _, _)
IndexFrom(s, x, i) ==
    IF i > Len(s) THEN 0
    ELSE IF s[i] = x THEN i
    ELSE IndexFrom(s, x, i + 1)

IndexOf(s, x) == IndexFrom(s, x, 1)

RemoveAt(s, i) == SubSeq(s, 1, i - 1) \o SubSeq(s, i + 1, Len(s))

Range(s) == {s[i] : i \in 1..Len(s)}

\* a function without the key k
Without(f, k) == [x \in (DOMAIN f) \ {k} |-> f[x]]

-----------------------------------------------------------------------------
(* The routing state as a value, so that handlers can call each other.     *)
(* sent and trace are the calls to replace_broadcast and the outcome of    *)
(* each handler invocation, in order; ret is the value returned; uaf       *)
(* records that freed memory was read, abort that abort() was called.      *)

RState == [nodes |-> nodes, chanmap |-> chanmap,
           pending |-> pending_cannouncement, pnmap |-> pending_node_map,
           sent |-> <<>>, trace |-> <<>>, ret |-> None,
           uaf |-> FALSE, abort |-> FALSE]

-----------------------------------------------------------------------------
(* Graph store *)

get_node(rs, id) == IF id \in DOMAIN rs.nodes THEN Some(id) ELSE None

get_channel(rs, scid) == IF scid \in DOMAIN rs.chanmap THEN Some(scid) ELSE None

\* index of id1 among the two ids in canonical (ascending) order
pubkey_idx(id1, id2) == IF id1 > id2 THEN 1 ELSE 0

new_node(rs, id) ==
    [rs EXCEPT !.nodes = (id :> [chans |-> <<>>,
                                 alias |-> None,
                                 rgb_color |-> None,
                                 node_announcement |-> None,
                                 last_timestamp |-> -1,
                                 addresses |-> <<>>]) @@ rs.nodes]

\* remove the first occurrence of c; ok is FALSE when c is absent
remove_channel_from_array(chans, c) ==
    LET i == IndexOf(chans, c)
    IN  IF i = 0 THEN [ok |-> FALSE, chans |-> chans]
        ELSE [ok |-> TRUE, chans |-> RemoveAt(chans, i)]

\* tal_free(node) of a node without channels: destroy_node unlinks it
destroy_node(rs, id) == [rs EXCEPT !.nodes = Without(rs.nodes, id)]

\* destroy_chan without the two tests that free a node left without channels
destroy_chan_keeps_nodes(rs, scid) ==
    LET chan == rs.chanmap[scid]
        r0 == remove_channel_from_array(rs.nodes[chan.nodes[1]].chans, scid)
        rs1 == [rs EXCEPT !.nodes[chan.nodes[1]].chans = r0.chans]
        r1 == remove_channel_from_array(rs1.nodes[chan.nodes[2]].chans, scid)
    IN  [rs1 EXCEPT !.nodes[chan.nodes[2]].chans = r1.chans,
                    !.chanmap = Without(rs.chanmap, scid),
                    !.abort = @ \/ ~r0.ok \/ ~r1.ok]

\* The destructor of a chan.  When both ends are the same node and its array
\* became empty, the node is freed by the first test and the second test
\* reads the freed node: uaf.
destroy_chan(rs, scid) ==
    LET chan == rs.chanmap[scid]
        n0 == chan.nodes[1]
        n1 == chan.nodes[2]
        r0 == remove_channel_from_array(rs.nodes[n0].chans, scid)
        rs1 == [rs EXCEPT !.nodes[n0].chans = r0.chans]
        r1 == remove_channel_from_array(rs1.nodes[n1].chans, scid)
        rs2 == [rs1 EXCEPT !.nodes[n1].chans = r1.chans,
                           !.chanmap = Without(rs.chanmap, scid),
                           !.abort = @ \/ ~r0.ok \/ ~r1.ok]
        rs3 == IF Len(rs2.nodes[n0].chans) = 0 THEN destroy_node(rs2, n0) ELSE rs2
    IN  IF n1 \notin DOMAIN rs3.nodes
        THEN [rs3 EXCEPT !.uaf = TRUE]
        ELSE IF Len(rs3.nodes[n1].chans) = 0 THEN destroy_node(rs3, n1) ELSE rs3

\* tal_free of a context holding the chans of victims
RECURSIVE destroy_chans(_, _)
destroy_chans(rs, victims) ==
    IF victims = {} THEN rs
    ELSE LET c == CHOOSE x \in victims : \A y \in victims : x >= y
         IN  destroy_chans(destroy_chan(rs, c), victims \ {c})

\* The fees, delay and htlc minimum are not set until the first update.
init_half_chan(idx, t) ==
    [channel_update |-> None,
     unroutable_until |-> 0,
     active |-> FALSE,
     flags |-> idx,
     last_timestamp |-> t - (PruneTimeout \div 2),
     base_fee |-> 0, proportional_fee |-> 0, delay |-> 0,
     htlc_minimum_msat |-> 0]

new_chan(rs, scid, id1, id2, t) ==
    LET n1idx == pubkey_idx(id1, id2)
        rs1 == IF get_node(rs, id1) = None THEN new_node(rs, id1) ELSE rs
        rs2 == IF get_node(rs1, id2) = None THEN new_node(rs1, id2) ELSE rs1
        chan == [scid |-> scid,
                 nodes |-> IF n1idx = 0 THEN <<id1, id2>> ELSE <<id2, id1>>,
                 channel_announcement |-> None,
                 public |-> FALSE,
                 satoshis |-> 0,
                 half |-> <<init_half_chan(0, t), init_half_chan(1, t)>>]
        rs3 == [rs2 EXCEPT !.nodes[id2].chans = Append(@, scid)]
        rs4 == [rs3 EXCEPT !.nodes[id1].chans = Append(@, scid)]
    IN  [rs4 EXCEPT !.chanmap = (scid :> chan) @@ rs4.chanmap]

\* the half channel index of the direction leaving / entering node n
half_chan_from(n, chan) == IF chan.nodes[2] = n THEN 1 ELSE 0
half_chan_to(n, chan) == IF chan.nodes[2] = n THEN 0 ELSE 1
other_node(n, chan) == IF chan.nodes[2] = n THEN chan.nodes[1] ELSE chan.nodes[2]

-----------------------------------------------------------------------------
(* Broadcast store.  The store belongs to the broadcaster; the routing     *)
(* state only submits to it, and the model keeps the submissions.         *)

replace_broadcast(rs, type, tag, payload) ==
    [rs EXCEPT !.sent = Append(@, [type |-> type, tag |-> tag, payload |-> payload])]

Outcome(rs, code, msg) == [rs EXCEPT !.trace = Append(@, [code |-> code, msg |-> msg])]

-----------------------------------------------------------------------------
(* Wire and crypto helpers *)

\* check_signed_hash: the signature was made by this key over this message
check_signed_hash(sig, key) == sig = key

\* an even feature bit is set (no feature bit is known)
unsupported_features(features) == \E b \in features : b % 2 = 0

\* the P2WSH script of the 2-of-2 of two keys (keys in sorted order)
p2wsh_2of2(k1, k2) == <<Min(k1, k2), Max(k1, k2)>>
\* scripteq that compares the lengths only
scripteq_len(s1, s2) == Len(s1) = Len(s2)

scripteq(s1, s2) == s1 = s2

\* channel_update flags
ROUTING_FLAGS_DISABLED == 2
direction_of(flags) == flags % 2
disabled_in(flags) == (flags \div ROUTING_FLAGS_DISABLED) % 2 = 1

MAX_PROPORTIONAL_FEE == 16777216

\* a u64 wire value is <<high 32 bits, low 32 bits>>; conversion to u32
U32OfU64(v) == v[2]
U64OfU32(x) == <<0, x>>

-----------------------------------------------------------------------------
(* Pending store *)

RECURSIVE find_pending_from(_, _, _)
find_pending_from(list, scid, i) ==
    IF i > Len(list) THEN 0
    ELSE IF list[i].short_channel_id = scid THEN i
    ELSE find_pending_from(list, scid, i + 1)

\* find_pending_cannouncement that skips the head of the list
find_pending_cannouncement_skips_head(rs, scid) == find_pending_from(rs.pending, scid, 2)


\* index in the list of the first pending announcement of scid, 0 for NULL
find_pending_cannouncement(rs, scid) == find_pending_from(rs.pending, scid, 1)

\* destroy_pending_cannouncement that unlinks the head of the list
destroy_pending_cannouncement_head(rs, i) == [rs EXCEPT !.pending = Tail(@)]

\* the destructor of a pending announcement unlinks it
destroy_pending_cannouncement(rs, i) == [rs EXCEPT !.pending = RemoveAt(@, i)]

\* The map may hold several entries of one node id; a lookup finds the
\* oldest of them.
add_pending_node_announcement(rs, nodeid) ==
    [rs EXCEPT !.pnmap[nodeid] = Append(@, [nodeid |-> nodeid,
                                            node_announcement |-> None,
                                            timestamp |-> 0])]

\* index of the entry found for nodeid among its entries, 0 for NULL
pending_node_map_get(rs, nodeid) == IF Len(rs.pnmap[nodeid]) = 0 THEN 0 ELSE 1

RECURSIVE SumLen(_, _)
SumLen(f, keys) ==
    IF keys = {} THEN 0
    ELSE LET k == CHOOSE x \in keys : TRUE
         IN  Len(f[k]) + SumLen(f, keys \ {k})

\* number of entries of the pending node map
pending_node_map_count(map) == SumLen(map, DOMAIN map)

\* update_pending that keeps the update received last
update_pending_latest(rs, i, timestamp, update, direction) ==
    [rs EXCEPT !.pending[i].updates[direction + 1] = Some(update),
               !.pending[i].update_timestamps[direction + 1] = timestamp]

update_pending(rs, i, timestamp, update, direction) ==
    IF rs.pending[i].update_timestamps[direction + 1] < timestamp
    THEN [rs EXCEPT !.pending[i].updates[direction + 1] = Some(update),
                    !.pending[i].update_timestamps[direction + 1] = timestamp]
    ELSE rs

-----------------------------------------------------------------------------
(* Ingest: channel_update *)

\* set_connection_values that leaves last_timestamp as it was
set_connection_values_keeps_timestamp(chan, idx, base_fee, proportional_fee, delay, active, timestamp, htlc_minimum_msat) ==
    [chan EXCEPT !.half[idx + 1] =
        [@ EXCEPT !.delay = delay,
                  !.htlc_minimum_msat = htlc_minimum_msat,
                  !.base_fee = base_fee,
                  !.proportional_fee = proportional_fee,
                  !.active = IF proportional_fee >= MAX_PROPORTIONAL_FEE
                             THEN FALSE ELSE active,
                  !.unroutable_until = 0]]

\* set_connection_values that leaves unroutable_until as it is
set_connection_values_keeps_unroutable(chan, idx, base_fee, proportional_fee, delay, active, timestamp, htlc_minimum_msat) ==
    [chan EXCEPT !.half[idx + 1] =
        [@ EXCEPT !.delay = delay,
                  !.htlc_minimum_msat = htlc_minimum_msat,
                  !.base_fee = base_fee,
                  !.proportional_fee = proportional_fee,
                  !.active = IF proportional_fee >= MAX_PROPORTIONAL_FEE
                             THEN FALSE ELSE active,
                  !.last_timestamp = timestamp]]

set_connection_values(chan, idx, base_fee, proportional_fee, delay, active, timestamp, htlc_minimum_msat) ==
    [chan EXCEPT !.half[idx + 1] =
        [@ EXCEPT !.delay = delay,
                  !.htlc_minimum_msat = htlc_minimum_msat,
                  !.base_fee = base_fee,
                  !.proportional_fee = proportional_fee,
                  !.active = IF proportional_fee >= MAX_PROPORTIONAL_FEE
                             THEN FALSE ELSE active,
                  !.last_timestamp = timestamp,
                  !.unroutable_until = 0]]

\* the stale test left out
update_is_outdated_never(last_timestamp, timestamp) == FALSE


\* the stale test with > for >=
update_is_outdated_strict(last_timestamp, timestamp) == last_timestamp > timestamp

\* the stale test of handle_channel_update
update_is_outdated(last_timestamp, timestamp) == last_timestamp >= timestamp

\* the signature test of handle_channel_update
check_channel_update(node_key, sig) == check_signed_hash(sig, node_key)

\* update_dispatch that drops the update of a known channel that is not public
update_dispatch_discard(rs, scid) ==
    LET chan == get_channel(rs, scid)
    IN  IF chan = None \/ ~rs.chanmap[scid].public
        THEN IF find_pending_cannouncement(rs, scid) # 0 THEN "deferred"
             ELSE "unknown"
        ELSE "apply"

\* whether an update for this channel goes to the pending store or is dropped
\* before the half channel is looked at: "deferred", "unknown" or "apply"
update_dispatch(rs, scid) ==
    LET chan == get_channel(rs, scid)
    IN  IF chan = None \/ ~rs.chanmap[scid].public
        THEN IF find_pending_cannouncement(rs, scid) # 0 THEN "deferred"
             ELSE IF chan = None THEN "unknown"
             ELSE "apply"
        ELSE "apply"

\* apply_channel_update without the call to replace_broadcast
apply_channel_update_silent(rs, scid, direction, update) ==
    LET chan1 == set_connection_values(rs.chanmap[scid], direction,
                     update.fee_base_msat,
                     update.fee_proportional_millionths,
                     update.expiry,
                     ~disabled_in(update.flags),
                     update.timestamp,
                     U32OfU64(update.htlc_minimum_msat))
        rs1 == [rs EXCEPT !.chanmap[scid] = chan1]
        rs2 == [rs1 EXCEPT !.chanmap[scid].half[direction + 1].channel_update = Some(update)]
    IN  Outcome(rs2, "cu_applied", update)

\* the update is accepted: its values are set, it is submitted to the
\* broadcast store and its bytes are retained
apply_channel_update(rs, scid, direction, update) ==
    LET chan == rs.chanmap[scid]
        chan1 == set_connection_values(chan, direction,
                     update.fee_base_msat,
                     update.fee_proportional_millionths,
                     update.expiry,
                     ~disabled_in(update.flags),
                     update.timestamp,
                     U32OfU64(update.htlc_minimum_msat))
        rs1 == replace_broadcast([rs EXCEPT !.chanmap[scid] = chan1],
                                 "channel_update", <<scid, direction>>, update)
        rs2 == [rs1 EXCEPT !.chanmap[scid].half[direction + 1].channel_update = Some(update)]
    IN  Outcome(rs2, "cu_applied", update)

handle_channel_update(rs, update) ==
    IF ~update.wellformed THEN Outcome(rs, "cu_parse", update)
    ELSE
    LET scid == update.short_channel_id
        direction == direction_of(update.flags)
        dispatch == update_dispatch(rs, scid)
    IN  IF update.chain_hash # ChainHash THEN Outcome(rs, "cu_chain", update)
        ELSE IF dispatch = "deferred"
        THEN Outcome(update_pending(rs, find_pending_cannouncement(rs, scid),
                                    update.timestamp, update, direction),
                     "cu_deferred", update)
        ELSE IF dispatch = "unknown" THEN Outcome(rs, "cu_unknown", update)
        ELSE
        LET chan == rs.chanmap[scid]
            c == chan.half[direction + 1]
        IN  IF update_is_outdated(c.last_timestamp, update.timestamp)
            THEN Outcome(rs, "cu_outdated", update)
            ELSE IF ~check_channel_update(chan.nodes[direction + 1], update.signature)
            THEN Outcome(rs, "cu_badsig", update)
            ELSE apply_channel_update(rs, scid, direction, update)

-----------------------------------------------------------------------------
(* Ingest: node_announcement *)

\* Address descriptors: "pad" is a padding byte, "addr" a well-formed address
\* of a known type, "trunc" a known type cut short, "unknown" an unknown type.
\* Returns Some(addresses) or None when parsing failed.
RECURSIVE read_addresses_from(_, _, _)
read_addresses_from(ser, i, acc) ==
    IF i > Len(ser) THEN Some(acc)
    ELSE IF ser[i] = "pad"
         THEN IF i = Len(ser) THEN None   \* nothing left to read after padding
              ELSE read_addresses_from(ser, i + 1, acc)
    ELSE IF ser[i] = "trunc" THEN None
    ELSE IF ser[i] = "unknown" THEN Some(acc)
    ELSE read_addresses_from(ser, i + 1, Append(acc, ser[i]))

read_addresses(ser) == read_addresses_from(ser, 1, <<>>)

\* the stale test of handle_node_announcement with > for >=
node_is_outdated_strict(last_timestamp, timestamp) == last_timestamp > timestamp

\* the stale test of handle_node_announcement
node_is_outdated(last_timestamp, timestamp) == last_timestamp >= timestamp

handle_node_announcement(rs, msg) ==
    IF ~msg.wellformed THEN Outcome(rs, "na_parse", msg)
    ELSE IF unsupported_features(msg.features) THEN Outcome(rs, "na_features", msg)
    ELSE IF ~check_signed_hash(msg.signature, msg.node_id) THEN Outcome(rs, "na_badsig", msg)
    ELSE
    LET node == get_node(rs, msg.node_id)
        pna == pending_node_map_get(rs, msg.node_id)
    IN  IF node = None /\ pna # 0
        THEN IF rs.pnmap[msg.node_id][pna].timestamp < msg.timestamp
             THEN Outcome([rs EXCEPT !.pnmap[msg.node_id][pna].timestamp = msg.timestamp,
                                     !.pnmap[msg.node_id][pna].node_announcement = Some(msg)],
                          "na_deferred", msg)
             ELSE Outcome(rs, "na_deferred", msg)
        ELSE IF node = None THEN Outcome(rs, "na_orphan", msg)
        ELSE IF node_is_outdated(rs.nodes[msg.node_id].last_timestamp, msg.timestamp)
        THEN Outcome(rs, "na_outdated", msg)
        ELSE
        LET wireaddrs == read_addresses(msg.addresses)
        IN  IF wireaddrs = None THEN Outcome(rs, "na_badaddr", msg)
            ELSE
            LET rs1 == [rs EXCEPT !.nodes[msg.node_id] =
                           [@ EXCEPT !.addresses = wireaddrs[1],
                                     !.last_timestamp = msg.timestamp,
                                     !.rgb_color = Some(msg.rgb_color),
                                     !.alias = Some(msg.alias),
                                     !.node_announcement = Some(msg)]]
                rs2 == replace_broadcast(rs1, "node_announcement",
                                         <<msg.node_id, 0, 0>>, msg)
            IN  Outcome(rs2, "na_applied", msg)

process_pending_node_announcement(rs, nodeid) ==
    LET pna == pending_node_map_get(rs, nodeid)
    IN  IF pna = 0 THEN rs
        ELSE LET rs1 == IF rs.pnmap[nodeid][pna].node_announcement # None
                        THEN handle_node_announcement(rs, rs.pnmap[nodeid][pna].node_announcement[1])
                        ELSE rs
             IN  [rs1 EXCEPT !.pnmap[nodeid] = RemoveAt(@, pna)]

-----------------------------------------------------------------------------
(* Ingest: channel_announcement *)

\* check_channel_announcement without the signature of the first node
check_channel_announcement_second_node(m) ==
    /\ check_signed_hash(m.node_signature_2, m.node_id_2)
    /\ check_signed_hash(m.bitcoin_signature_1, m.bitcoin_key_1)
    /\ check_signed_hash(m.bitcoin_signature_2, m.bitcoin_key_2)

check_channel_announcement(m) ==
    /\ check_signed_hash(m.node_signature_1, m.node_id_1)
    /\ check_signed_hash(m.node_signature_2, m.node_id_2)
    /\ check_signed_hash(m.bitcoin_signature_1, m.bitcoin_key_1)
    /\ check_signed_hash(m.bitcoin_signature_2, m.bitcoin_key_2)

\* ret is Some(scid) when the announcement is now pending, None otherwise
handle_channel_announcement(rs, announce) ==
    IF ~announce.wellformed THEN Outcome(rs, "ca_parse", announce)
    ELSE
    LET scid == announce.short_channel_id
        chan == get_channel(rs, scid)
        pending == [short_channel_id |-> scid,
                    node_id_1 |-> announce.node_id_1,
                    node_id_2 |-> announce.node_id_2,
                    bitcoin_key_1 |-> announce.bitcoin_key_1,
                    bitcoin_key_2 |-> announce.bitcoin_key_2,
                    announce |-> announce,
                    updates |-> <<None, None>>,
                    update_timestamps |-> <<0, 0>>]
    IN  IF chan # None /\ rs.chanmap[scid].public
        THEN Outcome(rs, "ca_public", announce)
        ELSE IF find_pending_cannouncement(rs, scid) # 0
        THEN Outcome(rs, "ca_pending", announce)
        ELSE IF unsupported_features(announce.features)
        THEN Outcome(rs, "ca_features", announce)
        ELSE IF announce.chain_hash # ChainHash
        THEN Outcome(rs, "ca_chain", announce)
        ELSE IF ~check_channel_announcement(announce)
        THEN Outcome(rs, "ca_badsig", announce)
        ELSE
        LET rs1 == add_pending_node_announcement(rs, announce.node_id_1)
            rs2 == add_pending_node_announcement(rs1, announce.node_id_2)
            rs3 == [rs2 EXCEPT !.pending = Append(@, pending), !.ret = Some(scid)]
        IN  Outcome(rs3, "ca_added", announce)

\* replay_pending with the buffered node announcements handled before the
\* deferred updates
replay_pending_nodes_first(rs, pending) ==
    LET rs4 == process_pending_node_announcement(rs, pending.node_id_1)
        rs5 == process_pending_node_announcement(rs4, pending.node_id_2)
        rs6 == IF pending.updates[1] # None
               THEN handle_channel_update(rs5, pending.updates[1][1])
               ELSE rs5
    IN  IF pending.updates[2] # None
        THEN handle_channel_update(rs6, pending.updates[2][1])
        ELSE rs6

\* the deferred updates of the entry, then the buffered node announcements
\* of its two nodes
replay_pending(rs, pending) ==
    LET rs4 == IF pending.updates[1] # None
               THEN handle_channel_update(rs, pending.updates[1][1])
               ELSE rs
        rs5 == IF pending.updates[2] # None
               THEN handle_channel_update(rs4, pending.updates[2][1])
               ELSE rs4
        rs6 == process_pending_node_announcement(rs5, pending.node_id_1)
    IN  process_pending_node_announcement(rs6, pending.node_id_2)

\* ret is <<local>>
handle_pending_cannouncement(rs, scid, satoshis, outscript, t) ==
    LET i == find_pending_cannouncement(rs, scid)
    IN  IF i = 0 THEN [Outcome(rs, "pc_nopending", scid) EXCEPT !.ret = <<FALSE>>]
        ELSE
        LET pending == rs.pending[i]
            s == p2wsh_2of2(pending.bitcoin_key_1, pending.bitcoin_key_2)
        IN  IF Len(outscript) = 0
            THEN [Outcome(destroy_pending_cannouncement(rs, i), "pc_spent", scid)
                    EXCEPT !.ret = <<FALSE>>]
            ELSE IF ~scripteq(s, outscript)
            THEN [Outcome(destroy_pending_cannouncement(rs, i), "pc_mismatch", scid)
                    EXCEPT !.ret = <<FALSE>>]
            ELSE
            LET rs1 == IF get_channel(rs, scid) = None
                       THEN new_chan(rs, scid, pending.node_id_1, pending.node_id_2, t)
                       ELSE rs
                rs2 == [rs1 EXCEPT !.chanmap[scid].public = TRUE,
                                   !.chanmap[scid].satoshis = satoshis,
                                   !.chanmap[scid].channel_announcement = Some(pending.announce)]
                rs3 == Outcome(replace_broadcast(rs2, "channel_announcement",
                                                 <<scid>>, pending.announce),
                               "pc_public", pending.announce)
                local == pending.node_id_1 = LocalId \/ pending.node_id_2 = LocalId
                rs7 == replay_pending(rs3, pending)
                rs8 == destroy_pending_cannouncement(rs7, i)
            IN  [rs8 EXCEPT !.ret = <<local>>]

-----------------------------------------------------------------------------
(* Policy: routing failures and pruning *)

\* seconds a half channel stays unroutable after a non-permanent failure
UnroutableSecs == 20

\* routing_failure_channel_out that treats a permanent failure as a
\* temporary one
routing_failure_channel_out_marks(rs, node, perm, scid, t) ==
    [rs |-> [rs EXCEPT !.chanmap[scid].half[half_chan_from(node, rs.chanmap[scid]) + 1]
                           .unroutable_until = t + UnroutableSecs],
     disposed |-> {}]

\* routing_failure_channel_out that marks the half channel towards the
\* erring node
routing_failure_channel_out_incoming(rs, node, perm, scid, t) ==
    IF ~perm
    THEN [rs |-> [rs EXCEPT !.chanmap[scid].half[half_chan_to(node, rs.chanmap[scid]) + 1]
                                .unroutable_until = t + UnroutableSecs],
          disposed |-> {}]
    ELSE [rs |-> rs, disposed |-> {scid}]

\* Returns the state and whether chan was handed to the disposal context
routing_failure_channel_out(rs, node, perm, scid, t) ==
    IF ~perm
    THEN [rs |-> [rs EXCEPT !.chanmap[scid].half[half_chan_from(node, rs.chanmap[scid]) + 1]
                                .unroutable_until = t + UnroutableSecs],
          disposed |-> {}]
    ELSE [rs |-> rs, disposed |-> {scid}]

RECURSIVE routing_failure_node(_, _, _, _, _, _)
routing_failure_node(rs, node, perm, i, t, disposed) ==
    IF i > Len(rs.nodes[node].chans) THEN [rs |-> rs, disposed |-> disposed]
    ELSE LET r == routing_failure_channel_out(rs, node, perm, rs.nodes[node].chans[i], t)
         IN  routing_failure_node(r.rs, node, perm, i + 1, t, disposed \cup r.disposed)

\* failcode is the set of its bits among "PERM", "NODE", "UPDATE";
\* channel_update is None (empty) or Some(message)
routing_failure(rs, erring_node, scid, failcode, channel_update, t) ==
    IF get_node(rs, erring_node) = None THEN Outcome(rs, "rf_nonode", scid)
    ELSE
    LET perm == "PERM" \in failcode
        r == IF "NODE" \in failcode
             THEN routing_failure_node(rs, erring_node, perm, 1, t, {})
             ELSE IF get_channel(rs, scid) = None
                  THEN [rs |-> Outcome(rs, "rf_nochan", scid), disposed |-> {}]
             ELSE IF /\ rs.chanmap[scid].nodes[1] # erring_node
                     /\ rs.chanmap[scid].nodes[2] # erring_node
                  THEN [rs |-> Outcome(rs, "rf_notconnected", scid), disposed |-> {}]
             ELSE routing_failure_channel_out(rs, erring_node, perm, scid, t)
        rs1 == IF "UPDATE" \in failcode
               THEN IF channel_update = None THEN r.rs
                    ELSE IF channel_update[1].type # "channel_update" THEN r.rs
                    ELSE handle_channel_update(r.rs, channel_update[1])
               ELSE r.rs
    IN  \* out: tal_free(tmpctx) destroys the disposed channels
        destroy_chans(rs1, r.disposed)

mark_channel_unroutable(rs, scid, t) ==
    IF get_channel(rs, scid) = None
    THEN Outcome(rs, "mcu_unknown", <<>>)
    ELSE [rs EXCEPT !.chanmap[scid].half[1].unroutable_until = t + UnroutableSecs,
                    !.chanmap[scid].half[2].unroutable_until = t + UnroutableSecs]

\* the test of route_prune with one stale half channel being enough
prune_victim_either(chan, highwater) ==
    /\ chan.public
    /\ \/ chan.half[1].last_timestamp < highwater
       \/ chan.half[2].last_timestamp < highwater

\* the test of route_prune on one channel
prune_victim(chan, highwater) ==
    /\ chan.public
    /\ chan.half[1].last_timestamp < highwater
    /\ chan.half[2].last_timestamp < highwater

\* route_prune with a highwater mark of twice the timeout
route_prune_late(rs, t) ==
    LET highwater == t - 2 * PruneTimeout
        pruned == {scid \in DOMAIN rs.chanmap : prune_victim(rs.chanmap[scid], highwater)}
    IN  destroy_chans(Outcome(rs, "rp_pruned", pruned), pruned)

route_prune(rs, t) ==
    LET highwater == t - PruneTimeout
        pruned == {scid \in DOMAIN rs.chanmap : prune_victim(rs.chanmap[scid], highwater)}
    IN  destroy_chans(Outcome(rs, "rp_pruned", pruned), pruned)

-----------------------------------------------------------------------------
(* Inputs: the messages and calls the environment makes *)

\* timestamps carried by messages: older than any initial half-channel
\* timestamp, and two newer ones
T0 == Now0 - PruneTimeout
T1 == Now0 + 1
T2 == Now0 + 2

\* kind: "ok", or the check it fails: "parse", "features", "chain", "sig"
ChannelAnnouncement(scid, n1, n2, kind) ==
    [type |-> "channel_announcement",
     wellformed |-> kind # "parse",
     node_signature_1 |-> IF kind = "sig" THEN 0 ELSE n1,
     node_signature_2 |-> n2,
     bitcoin_signature_1 |-> 11,
     bitcoin_signature_2 |-> 12,
     features |-> IF kind = "features" THEN {0} ELSE {1},
     chain_hash |-> IF kind = "chain" THEN "other" ELSE ChainHash,
     short_channel_id |-> scid,
     node_id_1 |-> n1,
     node_id_2 |-> n2,
     bitcoin_key_1 |-> 11,
     bitcoin_key_2 |-> 12]

\* scid 1 joins nodes 1 and 2; scid MaxScid joins MaxNode and 2 (given in
\* descending order), or node 2 with itself
Announcements ==
    {ChannelAnnouncement(1, 1, 2, k) : k \in {"ok", "parse", "features", "chain", "sig"}}
    \cup {ChannelAnnouncement(MaxScid, MaxNode, 2, "ok"),
          ChannelAnnouncement(MaxScid, 2, 2, "ok")}

\* answers of the chain oracle: spent, the announced keys, other keys
Outscripts == {<<>>, p2wsh_2of2(11, 12), p2wsh_2of2(11, 13)}

ChannelUpdate(scid, direction, timestamp, signer, disabled, base, prop, expiry, htlc, kind) ==
    [type |-> "channel_update",
     wellformed |-> kind # "parse",
     signature |-> signer,
     chain_hash |-> IF kind = "chain" THEN "other" ELSE ChainHash,
     short_channel_id |-> scid,
     timestamp |-> timestamp,
     flags |-> direction + (IF disabled THEN ROUTING_FLAGS_DISABLED ELSE 0),
     expiry |-> expiry,
     htlc_minimum_msat |-> htlc,
     fee_base_msat |-> base,
     fee_proportional_millionths |-> prop]

\* The updates of the general machine.  Direction 0 of scid 1 is signed by
\* node 1 and direction 1 by node 2; direction 0 of scid MaxScid by node 2
\* and direction 1 by node MaxNode (by node 2 when both ends are node 2).
Updates ==
    {ChannelUpdate(1, 0, T1, 1, FALSE, 1000, 100, 10, <<0, 0>>, "ok"),
     ChannelUpdate(1, 0, T2, 1, TRUE, 2000, 200, 20, <<0, 7>>, "ok"),
     ChannelUpdate(1, 0, T2, 2, FALSE, 3000, 300, 30, <<0, 0>>, "ok"),
     ChannelUpdate(1, 1, T1, 2, FALSE, 1000, 100, 10, <<0, 0>>, "ok"),
     ChannelUpdate(MaxScid, 0, T1, 2, FALSE, 1000, 100, 10, <<0, 0>>, "ok"),
     ChannelUpdate(MaxScid, 1, T1, MaxNode, FALSE, 1000, 100, 10, <<0, 0>>, "ok")}

\* The updates of the ingest machine: more timestamps, malformed and
\* foreign-chain messages, an overflowing proportional fee, a 64-bit minimum
IngestUpdates ==
    Updates \cup
    {ChannelUpdate(1, 0, T0, 1, FALSE, 1000, 100, 10, <<0, 0>>, "ok"),
     ChannelUpdate(1, 0, T2, 1, FALSE, 1000, 100, 10, <<0, 0>>, "parse"),
     ChannelUpdate(1, 0, T2, 1, FALSE, 1000, 100, 10, <<0, 0>>, "chain"),
     ChannelUpdate(1, 0, T2, 1, FALSE, 1000, 100, 10, <<0, 0>>, "ok"),
     ChannelUpdate(1, 1, T2, 2, FALSE, 0, MAX_PROPORTIONAL_FEE, 10, <<1, 5>>, "ok"),
     ChannelUpdate(MaxScid, 1, T1, 2, FALSE, 1000, 100, 10, <<0, 0>>, "ok")}

\* kind: "ok", or the check it fails: "parse", "features", "sig"
NodeAnnouncement(id, timestamp, alias, addresses, kind) ==
    [type |-> "node_announcement",
     wellformed |-> kind # "parse",
     signature |-> IF kind = "sig" THEN 0 ELSE id,
     features |-> IF kind = "features" THEN {0} ELSE {},
     timestamp |-> timestamp,
     node_id |-> id,
     rgb_color |-> alias,
     alias |-> alias,
     addresses |-> addresses]

NodeAnnouncements ==
    {NodeAnnouncement(2, 1, "a", <<"addr">>, "ok"),
     NodeAnnouncement(2, 2, "d", <<"addr">>, "sig")}

IngestNodeAnnouncements ==
    NodeAnnouncements \cup
    {NodeAnnouncement(2, 2, "b", <<"pad", "addr", "unknown", "addr">>, "ok"),
     NodeAnnouncement(2, 2, "c", <<"addr", "trunc">>, "ok"),
     NodeAnnouncement(2, 2, "d", <<"addr">>, "features"),
     NodeAnnouncement(2, 2, "d", <<"addr">>, "parse"),
     NodeAnnouncement(MaxNode, 0, "e", <<>>, "ok")}

\* routing failures: erring node, channel, failcode bits, and the update
\* that comes with it (None when empty)
Failure(erring, scid, failcode, upd) ==
    [erring |-> erring, scid |-> scid, failcode |-> failcode, update |-> upd]

Failures ==
    {Failure(1, 1, {}, None),
     Failure(1, 1, {"UPDATE"}, None),
     Failure(1, 1, {"UPDATE"},
             Some(ChannelUpdate(1, 0, T2, 1, TRUE, 2000, 200, 20, <<0, 7>>, "ok"))),
     Failure(1, 1, {"UPDATE"}, Some(NodeAnnouncement(2, 1, "a", <<"addr">>, "ok"))),
     Failure(1, 1, {"PERM", "UPDATE"},
             Some(ChannelUpdate(1, 0, T2, 1, TRUE, 2000, 200, 20, <<0, 7>>, "ok"))),
     Failure(2, MaxScid, {"PERM"}, None),
     Failure(MaxNode, 1, {"PERM"}, None),
     Failure(2, 1, {"NODE"}, None),
     Failure(2, 1, {"NODE", "PERM"}, None)}

-----------------------------------------------------------------------------
(* The state machine *)

Idle == [op |-> "idle"]

Init ==
    /\ nodes = <<>>
    /\ chanmap = <<>>
    /\ pending_cannouncement = <<>>
    /\ pending_node_map = [n \in NodeIds |-> <<>>]
    /\ now = Now0
    /\ aborted = FALSE
    /\ sent = <<>>
    /\ last = Idle

\* an operation may start: the process runs and the last one has returned
Ready == ~aborted /\ last.op = "idle"

\* The operation returns rs; call describes it.  Reading freed memory may
\* go unnoticed or end the process.
Commit(rs, call) ==
    /\ nodes' = rs.nodes
    /\ chanmap' = rs.chanmap
    /\ pending_cannouncement' = rs.pending
    /\ pending_node_map' = rs.pnmap
    /\ sent' = rs.sent
    /\ last' = call @@ [ret |-> rs.ret, trace |-> rs.trace]
    /\ aborted' \in (IF rs.abort THEN {TRUE} ELSE IF rs.uaf THEN {FALSE, TRUE} ELSE {FALSE})
    /\ now' = now

\* local_add_channel: a channel of the local node that is not yet known
NewChan ==
    /\ Ready
    /\ get_channel(RState, 1) = None
    /\ Commit(new_chan(RState, 1, LocalId, 2, now),
              [op |-> "new_chan", scid |-> 1])

HandleChannelAnnouncement ==
    /\ Ready
    /\ pending_node_map_count(pending_node_map) + 2 <= MaxPna
    /\ \E m \in Announcements :
          Commit(handle_channel_announcement(RState, m),
                 [op |-> "handle_channel_announcement", msg |-> m])

HandlePendingCannouncement ==
    /\ Ready
    /\ \E scid \in Scids, outscript \in Outscripts :
          Commit(handle_pending_cannouncement(RState, scid, 1000, outscript, now),
                 [op |-> "handle_pending_cannouncement", scid |-> scid,
                  outscript |-> outscript])

HandleChannelUpdateOf(msgs) ==
    /\ Ready
    /\ \E m \in msgs :
          Commit(handle_channel_update(RState, m),
                 [op |-> "handle_channel_update", msg |-> m])

HandleChannelUpdate == HandleChannelUpdateOf(Updates)

HandleNodeAnnouncementOf(msgs) ==
    /\ Ready
    /\ \E m \in msgs :
          Commit(handle_node_announcement(RState, m),
                 [op |-> "handle_node_announcement", msg |-> m])

HandleNodeAnnouncement == HandleNodeAnnouncementOf(NodeAnnouncements)

RoutingFailure ==
    /\ Ready
    /\ \E f \in Failures :
          Commit(routing_failure(RState, f.erring, f.scid, f.failcode, f.update, now),
                 [op |-> "routing_failure"] @@ f)

RoutePrune ==
    /\ Ready
    /\ Commit(route_prune(RState, now), [op |-> "route_prune"])

\* the clock advances to a later instant
Tick ==
    /\ Ready
    /\ \E t \in Instants : t > now /\ now' = t
    /\ UNCHANGED <<nodes, chanmap, pending_cannouncement, pending_node_map,
                   aborted, sent, last>>

\* back in the event loop: the record of the last operation is dropped
Return ==
    /\ ~aborted
    /\ last.op # "idle"
    /\ last' = Idle
    /\ sent' = <<>>
    /\ UNCHANGED <<nodes, chanmap, pending_cannouncement, pending_node_map,
                   now, aborted>>

Next ==
    \/ NewChan
    \/ HandleChannelAnnouncement
    \/ HandlePendingCannouncement
    \/ HandleChannelUpdate
    \/ HandleNodeAnnouncement
    \/ RoutingFailure
    \/ RoutePrune
    \/ Tick
    \/ Return

Spec == Init /\ [][Next]_vars

-----------------------------------------------------------------------------
(* The ingest machine: gossip only, with the larger catalogues of updates  *)
(* and node announcements.                                                 *)

IngestChannelUpdate == HandleChannelUpdateOf(IngestUpdates)

IngestNodeAnnouncement == HandleNodeAnnouncementOf(IngestNodeAnnouncements)

IngestNext ==
    \/ NewChan
    \/ HandleChannelAnnouncement
    \/ HandlePendingCannouncement
    \/ IngestChannelUpdate
    \/ IngestNodeAnnouncement
    \/ Return

IngestSpec == Init /\ [][IngestNext]_vars

-----------------------------------------------------------------------------
(* The replay machine: channel 1 is pending (and may exist already as a     *)
(* local channel); updates for it arrive while it is pending, then the     *)
(* chain check succeeds.  last.fed is the sequence of updates received,    *)
(* sent the submissions to the broadcast store since the start.            *)

\* updates received while pending, at most
MaxFed == 3

EmptyRState ==
    [nodes |-> <<>>, chanmap |-> <<>>, pending |-> <<>>,
     pnmap |-> [n \in NodeIds |-> <<>>],
     sent |-> <<>>, trace |-> <<>>, ret |-> None, uaf |-> FALSE, abort |-> FALSE]

ReplayAnnouncement == ChannelAnnouncement(1, 1, 2, "ok")

ReplayOutscript == p2wsh_2of2(ReplayAnnouncement.bitcoin_key_1,
                              ReplayAnnouncement.bitcoin_key_2)

ReplayUpdates == {m \in IngestUpdates : m.short_channel_id = 1}

\* the state in which channel 1 is pending; local: it was added locally before
ReplayStart(local) ==
    LET rs0 == IF local THEN new_chan(EmptyRState, 1, LocalId, 2, Now0) ELSE EmptyRState
        rs1 == handle_channel_announcement(rs0, ReplayAnnouncement)
    IN  [rs1 EXCEPT !.sent = <<>>, !.trace = <<>>, !.ret = None]

ReplayInit ==
    /\ \E local \in BOOLEAN :
          LET rs == ReplayStart(local)
          IN  /\ nodes = rs.nodes
              /\ chanmap = rs.chanmap
              /\ pending_cannouncement = rs.pending
              /\ pending_node_map = rs.pnmap
              /\ last = [op |-> "pending", local |-> local, fed |-> <<>>]
    /\ now = Now0
    /\ aborted = FALSE
    /\ sent = <<>>

ReplayCommit(rs, op, fed) ==
    /\ nodes' = rs.nodes
    /\ chanmap' = rs.chanmap
    /\ pending_cannouncement' = rs.pending
    /\ pending_node_map' = rs.pnmap
    /\ sent' = sent \o rs.sent
    /\ last' = [op |-> op, local |-> last.local, fed |-> fed]
    /\ UNCHANGED <<now, aborted>>

\* the updates received while the announcement is pending: those of
\* ReplayUpdates and one with timestamp 0
ReplayFed ==
    ReplayUpdates \cup
        {ChannelUpdate(1, 1, 0, 2, FALSE, 1000, 100, 10, <<0, 0>>, "ok")}

ReplayFeed ==
    /\ last.op = "pending"
    /\ Len(last.fed) < MaxFed
    /\ \E m \in ReplayFed :
          ReplayCommit(handle_channel_update(RState, m), "pending", Append(last.fed, m))

ReplayConfirm ==
    /\ last.op = "pending"
    /\ ReplayCommit(handle_pending_cannouncement(RState, 1, 1000, ReplayOutscript, now),
                    "confirmed", last.fed)

ReplayNext ==
    \/ ReplayFeed
    \/ ReplayConfirm

ReplaySpec == ReplayInit /\ [][ReplayNext]_vars

-----------------------------------------------------------------------------
(* The resolve machine: gossip as in the ingest machine, with the updates   *)
(* of channel 1 only and node announcements of both of its nodes.          *)

ResolveNodeAnnouncements ==
    {NodeAnnouncement(1, 1, "f", <<"addr">>, "ok"),
     NodeAnnouncement(1, 2, "g", <<"addr", "trunc">>, "ok"),
     NodeAnnouncement(2, 1, "a", <<"addr">>, "ok"),
     NodeAnnouncement(2, 2, "b", <<"pad", "addr", "unknown", "addr">>, "ok")}

ResolveChannelUpdate == HandleChannelUpdateOf(ReplayUpdates)

ResolveNodeAnnouncement == HandleNodeAnnouncementOf(ResolveNodeAnnouncements)

ResolveNext ==
    \/ NewChan
    \/ HandleChannelAnnouncement
    \/ HandlePendingCannouncement
    \/ ResolveChannelUpdate
    \/ ResolveNodeAnnouncement
    \/ Return

ResolveSpec == Init /\ [][ResolveNext]_vars

-----------------------------------------------------------------------------
(* Unsigned 64-bit amounts.  A number is the sequence of its base-1000      *)
(* digits, least significant first, without leading zero digits; the       *)
(* values met stay far below 2^64, so no operation wraps.                  *)

RECURSIVE BigOf(_)
BigOf(n) == IF n = 0 THEN <<>> ELSE <<n % 1000>> \o BigOf(n \div 1000)

RECURSIVE BigNorm(_)
BigNorm(a) ==
    IF Len(a) > 0 /\ a[Len(a)] = 0 THEN BigNorm(SubSeq(a, 1, Len(a) - 1)) ELSE a

RECURSIVE BigAddC(_, _, _)
BigAddC(a, b, carry) ==
    IF Len(a) = 0 /\ Len(b) = 0
    THEN IF carry = 0 THEN <<>> ELSE <<carry>>
    ELSE LET x == IF Len(a) = 0 THEN 0 ELSE a[1]
             y == IF Len(b) = 0 THEN 0 ELSE b[1]
             sum == x + y + carry
         IN  <<sum % 1000>> \o
             BigAddC(IF Len(a) = 0 THEN a ELSE Tail(a),
                     IF Len(b) = 0 THEN b ELSE Tail(b),
                     sum \div 1000)

BigAdd(a, b) == BigAddC(a, b, 0)

\* a times one digit d
RECURSIVE BigMulDigit(_, _, _)
BigMulDigit(a, d, carry) ==
    IF Len(a) = 0 THEN BigOf(carry)
    ELSE LET prod == a[1] * d + carry
         IN  <<prod % 1000>> \o BigMulDigit(Tail(a), d, prod \div 1000)

RECURSIVE BigMul(_, _)
BigMul(a, b) ==
    IF Len(a) = 0 \/ Len(b) = 0 THEN <<>>
    ELSE BigNorm(BigAdd(BigMulDigit(a, b[1], 0), <<0>> \o BigMul(a, Tail(b))))

\* floor(a / d) for 0 < d <= 1000000, most significant digit first
RECURSIVE BigDivFrom(_, _, _, _)
BigDivFrom(a, d, i, rem) ==
    IF i = 0 THEN <<>>
    ELSE LET cur == rem * 1000 + a[i]
         IN  BigDivFrom(a, d, i - 1, cur % d) \o <<cur \div d>>

BigDiv(a, d) == BigNorm(BigDivFrom(a, d, Len(a), 0))

RECURSIVE BigLessFrom(_, _, _)
BigLessFrom(a, b, i) ==
    IF i = 0 THEN FALSE
    ELSE IF a[i] # b[i] THEN a[i] < b[i]
    ELSE BigLessFrom(a, b, i - 1)

BigLess(a, b) ==
    IF Len(a) # Len(b) THEN Len(a) < Len(b) ELSE BigLessFrom(a, b, Len(a))

BigGeq(a, b) == ~BigLess(a, b)

-----------------------------------------------------------------------------
(* Route search *)

\* the hop limit of a route; routing.h sets it to 20
ROUTING_MAX_HOPS == 3

\* 1 << 40
MAX_MSATOSHI == <<776, 627, 511, 99, 1>>

\* 0x3FFFFFFFFFFFFFFF
INFINITE == <<903, 387, 427, 18, 686, 611, 4>>

BLOCKS_PER_YEAR == 52596

\* ok is FALSE when an assertion of connection_fee fails
connection_fee_asserts(c, msatoshi) ==
    /\ BigLess(msatoshi, MAX_MSATOSHI)
    /\ c.proportional_fee < MAX_PROPORTIONAL_FEE

\* connection_fee without the base fee
connection_fee_no_base(c, msatoshi) ==
    BigDiv(BigMul(BigOf(c.proportional_fee), msatoshi), 1000000)

connection_fee(c, msatoshi) ==
    BigAdd(BigOf(c.base_fee),
           BigDiv(BigMul(BigOf(c.proportional_fee), msatoshi), 1000000))

\* riskfactor is a whole number here (see get_route)
risk_fee(amount, delay, riskfactor) ==
    BigAdd(BigOf(1), BigMul(BigMul(amount, BigOf(delay)), BigOf(riskfactor)))

\* hc_is_routable without the test of unroutable_until
hc_is_routable_active(hc, t) == hc.active

hc_is_routable(hc, t) == hc.active /\ hc.unroutable_until < t

\* siphash24(base_seed, scid) / UINT64_MAX: the seed is the set of scids
\* that hash to UINT64_MAX, the others hash to 0
fuzz_rand(seed, scid) == IF scid \in seed THEN 1 ELSE 0

\* fee times fee_scale, where fee_scale = 1 + 2*fuzz*rand - fuzz and the
\* fuzz is fuzz2 halves: floor(fee * (2 + 2*fuzz2*rand - fuzz2) / 2)
scale_fee(fee, fuzz2, rand) ==
    IF fuzz2 = 0 THEN fee
    ELSE BigDiv(BigMul(fee, BigOf(2 + 2 * fuzz2 * rand - fuzz2)), 2)

clear_bfg(rs) ==
    [n \in DOMAIN rs.nodes |->
        [h \in 0..ROUTING_MAX_HOPS |-> [total |-> INFINITE, risk |-> <<>>, prev |-> None]]]

\* whether a candidate is taken: it is not extreme and it beats the entry
bfg_improves(total, fee, risk, old) ==
    /\ BigLess(BigAdd(BigAdd(total, fee), risk), MAX_MSATOSHI)
    /\ BigLess(BigAdd(BigAdd(total, fee), risk), BigAdd(old.total, old.risk))

\* the entry of src at h + 1 once the candidate total + fee, risk is weighed
bfg_take(st, src, h, scid, total, fee, risk, ok) ==
    IF bfg_improves(total, fee, risk, st.bfg[src][h + 1])
    THEN [bfg |-> [st.bfg EXCEPT ![src][h + 1] =
                      [total |-> BigAdd(total, fee),
                       risk |-> risk,
                       prev |-> Some(scid)]],
          ok |-> ok]
    ELSE [bfg |-> st.bfg, ok |-> ok]

\* the candidate through the half channel c from the entry cur, at fee
bfg_weigh(st, c, cur, src, h, scid, riskfactor, fee) ==
    bfg_take(st, src, h, scid, cur.total, fee,
             BigAdd(cur.risk,
                    risk_fee(BigAdd(cur.total, fee), c.delay, riskfactor)),
             st.ok /\ connection_fee_asserts(c, cur.total))

\* st is [bfg, ok]: ok turns FALSE when an assertion of connection_fee fails,
\* which ends the process: nothing is computed after that
RECURSIVE bfg_one_edge(_, _, _, _, _, _, _, _)
bfg_one_edge(st, node, chan, idx, riskfactor, fuzz2, seed, h) ==
    IF ~st.ok \/ h >= ROUTING_MAX_HOPS THEN st
    ELSE IF st.bfg[node][h].total = INFINITE
    THEN bfg_one_edge(st, node, chan, idx, riskfactor, fuzz2, seed, h + 1)
    ELSE bfg_one_edge(
             bfg_weigh(st, chan.half[idx + 1], st.bfg[node][h],
                       chan.nodes[idx + 1], h, chan.scid, riskfactor,
                       scale_fee(connection_fee(chan.half[idx + 1],
                                                st.bfg[node][h].total),
                                 fuzz2, fuzz_rand(seed, chan.scid))),
             node, chan, idx, riskfactor, fuzz2, seed, h + 1)

\* the edges of node n, from index i of its array
RECURSIVE bfg_node_edges(_, _, _, _, _, _, _, _)
bfg_node_edges(st, rs, n, i, t, riskfactor, fuzz2, seed) ==
    IF ~st.ok \/ i > Len(rs.nodes[n].chans) THEN st
    ELSE
    LET chan == rs.chanmap[rs.nodes[n].chans[i]]
        idx == half_chan_to(n, chan)
        st1 == IF ~hc_is_routable(chan.half[idx + 1], t) THEN st
               ELSE bfg_one_edge(st, n, chan, idx, riskfactor, fuzz2, seed, 0)
    IN  bfg_node_edges(st1, rs, n, i + 1, t, riskfactor, fuzz2, seed)

\* one run over every node, in the order of the node map
RECURSIVE bfg_run(_, _, _, _, _, _, _, _)
bfg_run(st, rs, order, k, t, riskfactor, fuzz2, seed) ==
    IF ~st.ok \/ k > Len(order) THEN st
    ELSE bfg_run(bfg_node_edges(st, rs, order[k], 1, t, riskfactor, fuzz2, seed),
                 rs, order, k + 1, t, riskfactor, fuzz2, seed)

RECURSIVE bfg_runs(_, _, _, _, _, _, _, _)
bfg_runs(st, rs, order, runs, t, riskfactor, fuzz2, seed) ==
    IF ~st.ok \/ runs >= ROUTING_MAX_HOPS THEN st
    ELSE bfg_runs(bfg_run(st, rs, order, 1, t, riskfactor, fuzz2, seed),
                  rs, order, runs + 1, t, riskfactor, fuzz2, seed)

\* best as the first level with a finite total
RECURSIVE best_from_shortest(_, _, _)
best_from_shortest(b, i, best) ==
    IF i > ROUTING_MAX_HOPS THEN best
    ELSE best_from_shortest(b, i + 1,
             IF BigLess(b[i].total, INFINITE) /\ ~BigLess(b[best].total, INFINITE)
             THEN i ELSE best)

\* best = argmin over 1..ROUTING_MAX_HOPS of dst->bfg[i].total, starting at 0
RECURSIVE best_from(_, _, _)
best_from(b, i, best) ==
    IF i > ROUTING_MAX_HOPS THEN best
    ELSE best_from(b, i + 1, IF BigLess(b[i].total, b[best].total) THEN i ELSE best)

\* lay_out reading every previous channel at the level best
RECURSIVE lay_out_same_level(_, _, _, _, _, _)
lay_out_same_level(bfg, rs, n, best, i, acc) ==
    IF i >= best THEN [route |-> acc.route, last_node |-> n, sane |-> acc.sane]
    ELSE IF bfg[n][best].prev = None \/ bfg[n][best].total = INFINITE
    THEN [route |-> acc.route, last_node |-> n, sane |-> FALSE]
    ELSE lay_out_same_level(bfg, rs, other_node(n, rs.chanmap[bfg[n][best].prev[1]]),
                            best, i + 1,
                            [route |-> Append(acc.route, bfg[n][best].prev[1]),
                             sane |-> acc.sane])

\* the route laid out from dst: the channels and the node reached at the end;
\* sane is FALSE when an entry without a previous channel was followed
RECURSIVE lay_out(_, _, _, _, _, _)
lay_out(bfg, rs, n, best, i, acc) ==
    IF i >= best THEN [route |-> acc.route, last_node |-> n, sane |-> acc.sane]
    ELSE
    LET e == bfg[n][best - i]
    IN  IF e.prev = None \/ e.total = INFINITE
        THEN [route |-> acc.route, last_node |-> n, sane |-> FALSE]
        ELSE lay_out(bfg, rs, other_node(n, rs.chanmap[e.prev[1]]), best, i + 1,
                     [route |-> Append(acc.route, e.prev[1]), sane |-> acc.sane])

\* the result of find_route: found, the channels from dst, whether no
\* assertion failed, and the length of the route
RouteFound(found, route, asserts, best) ==
    [found |-> found, route |-> route, asserts |-> asserts, best |-> best]

\* the route of length best over the final table st
route_of_best(rs, st, dst, src, best) ==
    IF BigGeq(st.bfg[dst][best].total, INFINITE)
    THEN RouteFound(FALSE, <<>>, st.ok, 0)
    ELSE LET r == lay_out(st.bfg, rs, dst, best, 0, [route |-> <<>>, sane |-> TRUE])
         IN  RouteFound(TRUE, r.route, st.ok /\ r.sane /\ r.last_node = src, best)

route_of_bfg(rs, st, dst, src) ==
    route_of_best(rs, st, dst, src, best_from(st.bfg[dst], 1, 0))

\* order is the order in which the node map is traversed.
\* found: a route is returned; asserts: no assertion failed
find_route(rs, from, to, msatoshi, riskfactor, fuzz2, seed, t, order) ==
    IF get_node(rs, to) = None \/ get_node(rs, from) = None \/ from = to
    THEN RouteFound(FALSE, <<>>, TRUE, 0)
    ELSE IF BigGeq(msatoshi, MAX_MSATOSHI) THEN RouteFound(FALSE, <<>>, TRUE, 0)
    ELSE route_of_bfg(rs,
             bfg_runs([bfg |-> [clear_bfg(rs) EXCEPT ![to][0] =
                                   [total |-> msatoshi, risk |-> <<>>, prev |-> None]],
                       ok |-> TRUE],
                      rs, order, 0, t, riskfactor, fuzz2, seed),
             from, to)

\* hops from index i down to 1; n is the node the hop i leads to
RECURSIVE route_hops(_, _, _, _, _, _, _)
route_hops(rs, route, i, n, total_amount, total_delay, acc) ==
    IF i = 0 THEN [hops |-> acc.hops, asserts |-> acc.asserts, first |-> n]
    ELSE
    LET chan == rs.chanmap[route[i]]
        c == chan.half[half_chan_to(n, chan) + 1]
        hop == [channel_id |-> chan.scid, nodeid |-> n,
                amount |-> total_amount, delay |-> total_delay]
    IN  route_hops(rs, route, i - 1, other_node(n, chan),
                   BigAdd(total_amount, connection_fee(c, total_amount)),
                   total_delay + c.delay,
                   [hops |-> <<hop>> \o acc.hops,
                    asserts |-> acc.asserts /\ connection_fee_asserts(c, total_amount)])

\* the reply of get_route once the hops h are laid out
route_reply(r, h, source) ==
    [ret |-> Some(h.hops), asserts |-> r.asserts /\ h.asserts /\ h.first = source]

\* the reply of get_route to the result r of find_route
route_of_found(rs, r, source, destination, msatoshi, final_cltv) ==
    IF ~r.found THEN [ret |-> None, asserts |-> r.asserts]
    ELSE route_reply(r,
                     route_hops(rs, r.route, Len(r.route), destination,
                                msatoshi, final_cltv,
                                [hops |-> <<>>, asserts |-> TRUE]),
                     source)

\* riskfactor is a whole multiple of BLOCKS_PER_YEAR * 10000, so that the
\* factor per block is a whole number.  ret is None or Some(hops); asserts
\* is FALSE when an assertion failed, which ends the process.
get_route(rs, source, destination, msatoshi, riskfactor, final_cltv, fuzz2, seed, t, order) ==
    route_of_found(rs,
                   find_route(rs, source, destination, msatoshi,
                              (riskfactor \div BLOCKS_PER_YEAR) \div 10000,
                              fuzz2, seed, t, order),
                   source, destination, msatoshi, final_cltv)

-----------------------------------------------------------------------------
(* The route machine: get_route and mark_channel_unroutable on graphs built *)
(* by new_chan and by the values channel updates and routing failures      *)
(* leave on half channels.                                                 *)

\* what channel updates and failures leave on one half channel:
\* set is FALSE when no update was applied
HalfPolicy(set, disabled, base, prop, delay, unroutable_until) ==
    [set |-> set, disabled |-> disabled, base |-> base, prop |-> prop,
     delay |-> delay, unroutable_until |-> unroutable_until]

Untouched == HalfPolicy(FALSE, FALSE, 0, 0, 0, 0)
Cheap(u) == HalfPolicy(TRUE, FALSE, 1000, 100, 10, u)
Pricey(u) == HalfPolicy(TRUE, FALSE, 5000, 1000, 20, u)
Huge(u) == HalfPolicy(TRUE, FALSE, 2000000000, MAX_PROPORTIONAL_FEE - 1, 2, u)
Disabled(u) == HalfPolicy(TRUE, TRUE, 1000, 100, 10, u)
\* the fees that bring the largest u32, after one hop at Huge fees, to
\* MAX_MSATOSHI - 1
Brink(u) == HalfPolicy(TRUE, FALSE, 2105714139, 13006000, 2, u)

\* a channel configuration: present, public, and the two half policies
ChanConfig(present, public, p0, p1) ==
    [present |-> present, public |-> public, half |-> <<p0, p1>>]

ChanConfigs ==
    {ChanConfig(FALSE, FALSE, Untouched, Untouched),
     ChanConfig(TRUE, TRUE, Cheap(0), Cheap(0)),
     ChanConfig(TRUE, TRUE, Pricey(0), Pricey(0)),
     ChanConfig(TRUE, TRUE, Huge(0), Huge(0)),
     ChanConfig(TRUE, TRUE, Brink(0), Brink(0)),
     ChanConfig(TRUE, FALSE, Cheap(0), Cheap(0)),
     ChanConfig(TRUE, TRUE, Cheap(0), Untouched),
     ChanConfig(TRUE, TRUE, Cheap(Now0), Cheap(Now0 + 1)),
     ChanConfig(TRUE, TRUE, Cheap(Now0 - 1), Disabled(0))}

apply_half_policy(chan, idx, p) ==
    LET c1 == IF p.set
              THEN set_connection_values(chan, idx, p.base, p.prop, p.delay,
                                         ~p.disabled, T1, 0)
              ELSE chan
    IN  [c1 EXCEPT !.half[idx + 1].unroutable_until = p.unroutable_until]

build_chan(rs, scid, id1, id2, cfg) ==
    IF ~cfg.present THEN rs
    ELSE LET rs1 == new_chan(rs, scid, id1, id2, Now0)
             c1 == apply_half_policy(rs1.chanmap[scid], 0, cfg.half[1])
             c2 == apply_half_policy(c1, 1, cfg.half[2])
         IN  [rs1 EXCEPT !.chanmap[scid] = [c2 EXCEPT !.public = cfg.public]]

\* the ends of the channels 1, 2, 3: a triangle, or two parallel channels
\* and a third
Topologies == {<<<<1, 2>>, <<2, 3>>, <<1, 3>>>>,
               <<<<1, 2>>, <<2, 1>>, <<3, 2>>>>}

build_graph(topo, cfgs) ==
    build_chan(build_chan(build_chan(EmptyRState,
                   1, topo[1][1], topo[1][2], cfgs[1]),
                   2, topo[2][1], topo[2][2], cfgs[2]),
                   3, topo[3][1], topo[3][2], cfgs[3])

\* the third channel takes fewer configurations
ThirdConfigs ==
    {ChanConfig(FALSE, FALSE, Untouched, Untouched),
     ChanConfig(TRUE, TRUE, Cheap(0), Cheap(0)),
     ChanConfig(TRUE, TRUE, Pricey(0), Pricey(0)),
     ChanConfig(TRUE, FALSE, Cheap(0), Cheap(0))}

RouteInit ==
    /\ \E topo \in Topologies, c1 \in ChanConfigs, c2 \in ChanConfigs,
          c3 \in ThirdConfigs :
          LET rs == build_graph(topo, <<c1, c2, c3>>)
          IN  /\ nodes = rs.nodes
              /\ chanmap = rs.chanmap
    /\ pending_cannouncement = <<>>
    /\ pending_node_map = [n \in NodeIds |-> <<>>]
    /\ now = Now0
    /\ aborted = FALSE
    /\ sent = <<>>
    /\ last = Idle

\* the orders in which the node map may be traversed: ascending, descending
RECURSIVE Ascending(_)
Ascending(S) ==
    IF S = {} THEN <<>>
    ELSE LET m == CHOOSE x \in S : \A y \in S : x <= y
         IN  <<m>> \o Ascending(S \ {m})

RECURSIVE Reverse(_)
Reverse(q) == IF Len(q) = 0 THEN <<>> ELSE Reverse(Tail(q)) \o <<Head(q)>>

NodeOrder(rs, descending) ==
    IF descending THEN Reverse(Ascending(DOMAIN rs.nodes))
    ELSE Ascending(DOMAIN rs.nodes)

Query(source, destination, msatoshi, riskfactor, final_cltv, fuzz2, seed, descending) ==
    [source |-> source, destination |-> destination, msatoshi |-> msatoshi,
     riskfactor |-> riskfactor, final_cltv |-> final_cltv, fuzz2 |-> fuzz2,
     seed |-> seed, descending |-> descending]

\* amounts: 1000000 and the largest u32
Amounts == {BigOf(1000000), <<295, 967, 294, 4>>}

\* without fuzz, with fuzz 1/2 under two seeds, and in descending node order
Queries ==
    {Query(sd[1], sd[2], amount, rf, 9, 0, {}, FALSE) :
        sd \in {<<1, 3>>, <<3, 1>>, <<2, 2>>}, amount \in Amounts,
        rf \in {0, BLOCKS_PER_YEAR * 10000}}
    \cup {Query(1, 3, amount, 0, 9, 1, seed, FALSE) :
        amount \in Amounts, seed \in {{}, {1, 3}}}
    \cup {Query(1, 3, amount, 0, 9, 0, {}, TRUE) : amount \in Amounts}

\* the reply r to the query q reaches the caller, unless an assertion failed
RouteReturns(q, r) ==
    /\ last' = [op |-> "get_route", query |-> q,
                ret |-> IF r.asserts THEN r.ret ELSE None]
    /\ aborted' = ~r.asserts

GetRouteOf(queries) ==
    /\ Ready
    /\ \E q \in queries :
          RouteReturns(q, get_route(RState, q.source, q.destination, q.msatoshi,
                                    q.riskfactor, q.final_cltv, q.fuzz2, q.seed,
                                    now, NodeOrder(RState, q.descending)))
    /\ UNCHANGED <<nodes, chanmap, pending_cannouncement, pending_node_map,
                   now, sent>>

GetRoute == GetRouteOf(Queries)

\* the channels reported as failing: the first one, and one that is unknown
MarkedScids == {1, 4}

MarkChannelUnroutable ==
    /\ Ready
    /\ \E scid \in MarkedScids :
          Commit(mark_channel_unroutable(RState, scid, now),
                 [op |-> "mark_channel_unroutable", scid |-> scid])

RouteNext ==
    \/ GetRoute
    \/ MarkChannelUnroutable
    \/ Return

RouteSpec == RouteInit /\ [][RouteNext]_vars

-----------------------------------------------------------------------------
(* The failure machine: routing_failure and get_route on small graphs as    *)
(* the clock passes the end of the unroutable period.                      *)

\* channels 1 and 2 are public with both directions set, the third one is
\* absent or not
FailInit ==
    /\ \E topo \in Topologies,
          c3 \in {ChanConfig(FALSE, FALSE, Untouched, Untouched),
                  ChanConfig(TRUE, TRUE, Pricey(0), Pricey(0))} :
          LET rs == build_graph(topo, <<ChanConfig(TRUE, TRUE, Cheap(0), Cheap(0)),
                                        ChanConfig(TRUE, TRUE, Cheap(0), Cheap(0)),
                                        c3>>)
          IN  /\ nodes = rs.nodes
              /\ chanmap = rs.chanmap
    /\ pending_cannouncement = <<>>
    /\ pending_node_map = [n \in NodeIds |-> <<>>]
    /\ now = Now0
    /\ aborted = FALSE
    /\ sent = <<>>
    /\ last = Idle

\* the update a failure of channel 1 carries: direction, timestamp, signer,
\* disabled
FailUpdate(direction, timestamp, signer, disabled) ==
    Some(ChannelUpdate(1, direction, timestamp, signer, disabled,
                       2000, 200, 20, <<0, 7>>, "ok"))

\* failures of channel 1 reported by node 1: without update, with an update
\* that is newer, stale, badly signed, disabling, or of the other direction;
\* then failures of a node, of an unknown channel, of a channel that does
\* not connect to the erring node, permanent ones
FailFailures ==
    {Failure(1, 1, {}, None),
     Failure(1, 1, {"UPDATE"}, None),
     Failure(1, 1, {"UPDATE"}, FailUpdate(0, T2, 1, FALSE)),
     Failure(1, 1, {"UPDATE"}, FailUpdate(0, T1, 1, FALSE)),
     Failure(1, 1, {"UPDATE"}, FailUpdate(0, T2, 2, FALSE)),
     Failure(1, 1, {"UPDATE"}, FailUpdate(0, T2, 1, TRUE)),
     Failure(1, 1, {"UPDATE"}, FailUpdate(1, T2, 2, FALSE)),
     Failure(1, 1, {"UPDATE"}, Some(NodeAnnouncement(2, 1, "a", <<"addr">>, "ok"))),
     Failure(2, 1, {"NODE"}, None),
     Failure(3, 1, {}, None),
     Failure(3, 1, {"UPDATE"}, FailUpdate(0, T2, 1, FALSE)),
     Failure(1, 4, {}, None),
     Failure(1, 1, {"PERM"}, None),
     Failure(1, 1, {"PERM", "UPDATE"}, FailUpdate(0, T2, 1, FALSE)),
     Failure(2, 1, {"NODE", "PERM"}, None)}

FailRoutingFailure ==
    /\ Ready
    /\ \E f \in FailFailures :
          Commit(routing_failure(RState, f.erring, f.scid, f.failcode, f.update, now),
                 [op |-> "routing_failure", at |-> now] @@ f)

FailQueries ==
    {Query(sd[1], sd[2], BigOf(1000000), 0, 9, 0, {}, FALSE) :
        sd \in {<<1, 2>>, <<2, 1>>, <<1, 3>>}}

FailGetRoute == GetRouteOf(FailQueries)

\* the clock advances to the last second of the unroutable period of a
\* failure at Now0, or to the first one after it
FailTick ==
    /\ Ready
    /\ \E t \in {Now0 + UnroutableSecs, Now0 + UnroutableSecs + 1} : t > now /\ now' = t
    /\ UNCHANGED <<nodes, chanmap, pending_cannouncement, pending_node_map,
                   aborted, sent, last>>

FailNext ==
    \/ FailRoutingFailure
    \/ FailGetRoute
    \/ FailTick
    \/ Return

FailSpec == FailInit /\ [][FailNext]_vars

-----------------------------------------------------------------------------
(* The long route machine: get_route between the ends of a line of four     *)
(* nodes, and of a star of four nodes, with and without fuzz and risk.      *)

LineInit ==
    /\ \E topo \in {<<<<1, 2>>, <<2, 3>>, <<3, 4>>>>,
                    <<<<1, 2>>, <<2, 3>>, <<2, 4>>>>},
          p1 \in {Cheap(0), Pricey(0), Huge(0)},
          p2 \in {Cheap(0), Pricey(0), Huge(0)},
          p3 \in {Cheap(0), Pricey(0), Huge(0)} :
          LET rs == build_graph(topo, <<ChanConfig(TRUE, TRUE, p1, p1),
                                        ChanConfig(TRUE, TRUE, p2, p2),
                                        ChanConfig(TRUE, TRUE, p3, p3)>>)
          IN  /\ nodes = rs.nodes
              /\ chanmap = rs.chanmap
    /\ pending_cannouncement = <<>>
    /\ pending_node_map = [n \in NodeIds |-> <<>>]
    /\ now = Now0
    /\ aborted = FALSE
    /\ sent = <<>>
    /\ last = Idle

\* from one end to the other, without fuzz and with fuzz 1/2
LineQueries ==
    {Query(sd[1], sd[2], amount, rf, 9, fuzz2, seed, descending) :
        sd \in {<<1, 4>>, <<4, 1>>}, amount \in Amounts,
        rf \in {0, BLOCKS_PER_YEAR * 10000}, fuzz2 \in {0, 1},
        seed \in {{}, {1, 2, 3}}, descending \in BOOLEAN}

LineGetRoute == GetRouteOf(LineQueries)

LineNext ==
    \/ LineGetRoute
    \/ Return

LineSpec == LineInit /\ [][LineNext]_vars

-----------------------------------------------------------------------------
(* Properties of the graph store (Spec)                                     *)

HasOutcome(code) == \E i \in 1..Len(last.trace) : last.trace[i].code = code

\* C1: in every reachable state every channel of the SCID map is in the
\* channel array of both its endpoint nodes, both endpoints are in the node
\* map and endpoints[0].id < endpoints[1].id; and every channel listed in a
\* node's array is in the SCID map.
C1_GraphConsistent ==
    /\ \A scid \in DOMAIN chanmap :
          /\ chanmap[scid].nodes[1] \in DOMAIN nodes
          /\ chanmap[scid].nodes[2] \in DOMAIN nodes
          /\ scid \in Range(nodes[chanmap[scid].nodes[1]].chans)
          /\ scid \in Range(nodes[chanmap[scid].nodes[2]].chans)
          /\ chanmap[scid].nodes[1] < chanmap[scid].nodes[2]
    /\ \A n \in DOMAIN nodes :
          \A scid \in Range(nodes[n].chans) : scid \in DOMAIN chanmap

\* C2: in every reachable state no node of the node map has an empty
\* channel array.
C2_NoNodeWithoutChannel ==
    \A n \in DOMAIN nodes : Len(nodes[n].chans) > 0

\* a permanent failure has destroyed a channel whose update it had just
\* applied, the erring node went with it and other nodes remain
C2_Witness ==
    /\ last.op = "routing_failure"
    /\ "PERM" \in last.failcode
    /\ HasOutcome("cu_applied")
    /\ last.scid \notin DOMAIN chanmap
    /\ last.erring \notin DOMAIN nodes
    /\ DOMAIN nodes # {}

\* C10, as stated: after route_prune at time now no channel of the graph
\* has last_timestamp < now - prune_timeout on both half channels.
C10_NoStaleChannelAfterPrune ==
    last.op = "route_prune" =>
        \A scid \in DOMAIN chanmap :
            ~ /\ chanmap[scid].half[1].last_timestamp < now - PruneTimeout
              /\ chanmap[scid].half[2].last_timestamp < now - PruneTimeout

\* C10, amended: after route_prune at time now no public channel of the
\* graph has last_timestamp < now - prune_timeout on both half channels.
C10_NoStalePublicChannelAfterPrune ==
    last.op = "route_prune" =>
        \A scid \in DOMAIN chanmap :
            chanmap[scid].public =>
                ~ /\ chanmap[scid].half[1].last_timestamp < now - PruneTimeout
                  /\ chanmap[scid].half[2].last_timestamp < now - PruneTimeout

\* route_prune has destroyed a channel and has left a stale channel that is
\* not public
C10_Witness ==
    /\ last.op = "route_prune"
    /\ \E i \in 1..Len(last.trace) :
          last.trace[i].code = "rp_pruned" /\ last.trace[i].msg # {}
    /\ \E scid \in DOMAIN chanmap :
          /\ ~chanmap[scid].public
          /\ chanmap[scid].half[1].last_timestamp < now - PruneTimeout
          /\ chanmap[scid].half[2].last_timestamp < now - PruneTimeout

\* the outcomes that accept a message, and the submission each one makes
AcceptCodes == {"pc_public", "cu_applied", "na_applied"}

SubmissionOf(e) ==
    IF e.code = "pc_public"
    THEN [type |-> "channel_announcement",
          tag |-> <<e.msg.short_channel_id>>, payload |-> e.msg]
    ELSE IF e.code = "cu_applied"
    THEN [type |-> "channel_update",
          tag |-> <<e.msg.short_channel_id, direction_of(e.msg.flags)>>,
          payload |-> e.msg]
    ELSE [type |-> "node_announcement",
          tag |-> <<e.msg.node_id, 0, 0>>, payload |-> e.msg]

RECURSIVE Submissions(_)
Submissions(trace) ==
    IF Len(trace) = 0 THEN <<>>
    ELSE IF Head(trace).code \in AcceptCodes
         THEN <<SubmissionOf(Head(trace))>> \o Submissions(Tail(trace))
         ELSE Submissions(Tail(trace))

-----------------------------------------------------------------------------
(* Properties of the gossip ingest (IngestSpec)                             *)

\* the step is handle_channel_update of a message for a known public
\* channel whose half channel already has that timestamp or a later one
C3_StaleStep ==
    /\ last.op = "idle"
    /\ last'.op = "handle_channel_update"
    /\ last'.msg.short_channel_id \in DOMAIN chanmap
    /\ chanmap[last'.msg.short_channel_id].public
    /\ last'.msg.timestamp <=
          chanmap[last'.msg.short_channel_id]
              .half[direction_of(last'.msg.flags) + 1].last_timestamp

\* C3: handle_channel_update on a known public channel with timestamp <=
\* half[direction].last_timestamp leaves the half channel, the rest of the
\* graph, the pending store and the broadcast store unchanged.
C3_StaleUpdateChangesNothing ==
    [][C3_StaleStep =>
          /\ nodes' = nodes
          /\ chanmap' = chanmap
          /\ pending_cannouncement' = pending_cannouncement
          /\ pending_node_map' = pending_node_map
          /\ sent' = <<>>]_vars

\* the update retained on a half channel of a public channel has been fed
\* again and was dropped as outdated
C3_Witness ==
    /\ last.op = "handle_channel_update"
    /\ last.trace = <<[code |-> "cu_outdated", msg |-> last.msg]>>
    /\ last.msg.short_channel_id \in DOMAIN chanmap
    /\ chanmap[last.msg.short_channel_id].public
    /\ chanmap[last.msg.short_channel_id]
          .half[direction_of(last.msg.flags) + 1].channel_update = Some(last.msg)

\* the step is handle_channel_update of a well-formed message for a channel
\* that is known, not public and has no pending announcement
C5_PrivateStep ==
    /\ last.op = "idle"
    /\ last'.op = "handle_channel_update"
    /\ last'.msg.wellformed
    /\ last'.msg.short_channel_id \in DOMAIN chanmap
    /\ ~chanmap[last'.msg.short_channel_id].public
    /\ \A i \in 1..Len(pending_cannouncement) :
          pending_cannouncement[i].short_channel_id # last'.msg.short_channel_id

\* C5, as stated: a channel update for a channel that is known, not public
\* and without pending announcement is discarded: the graph is unchanged
\* and nothing is submitted to the broadcast store.
C5_PrivateUpdateDiscarded ==
    [][C5_PrivateStep => (chanmap' = chanmap /\ sent' = <<>>)]_vars

\* C5, amended: such an update is handled like the update of a public
\* channel: when its chain hash is known, its timestamp is newer than the
\* half channel's and its signature is the one of the node of its
\* direction, it is applied, retained and submitted once; otherwise the
\* graph is unchanged and nothing is submitted.
C5_PrivateUpdateApplied ==
    [][C5_PrivateStep =>
          LET m == last'.msg
              scid == m.short_channel_id
              d == direction_of(m.flags) + 1
          IN  IF /\ m.chain_hash = ChainHash
                 /\ chanmap[scid].half[d].last_timestamp < m.timestamp
                 /\ m.signature = chanmap[scid].nodes[d]
              THEN /\ chanmap'[scid].half[d].channel_update = Some(m)
                   /\ chanmap'[scid].half[d].last_timestamp = m.timestamp
                   /\ chanmap'[scid].half[d].base_fee = m.fee_base_msat
                   /\ ~chanmap'[scid].public
                   /\ sent' = <<[type |-> "channel_update",
                                 tag |-> <<scid, d - 1>>, payload |-> m]>>
              ELSE /\ chanmap' = chanmap
                   /\ sent' = <<>>]_vars

\* an update has been applied to a channel that is not public
C5_Witness ==
    /\ last.op = "handle_channel_update"
    /\ HasOutcome("cu_applied")
    /\ last.msg.short_channel_id \in DOMAIN chanmap
    /\ ~chanmap[last.msg.short_channel_id].public
    /\ sent # <<>>

\* the key that signs the updates of one direction of a pending channel
PendingKey(p, direction) ==
    IF direction = 0 THEN Min(p.node_id_1, p.node_id_2)
    ELSE Max(p.node_id_1, p.node_id_2)

PendingAnnouncementsVerified ==
    \A i \in 1..Len(pending_cannouncement) :
        LET a == pending_cannouncement[i].announce
        IN  /\ a.wellformed
            /\ a.node_signature_1 = a.node_id_1
            /\ a.node_signature_2 = a.node_id_2
            /\ a.bitcoin_signature_1 = a.bitcoin_key_1
            /\ a.bitcoin_signature_2 = a.bitcoin_key_2

BufferedNodeAnnouncementsVerified ==
    \A n \in DOMAIN pending_node_map :
        \A i \in 1..Len(pending_node_map[n]) :
            LET e == pending_node_map[n][i]
            IN  e.node_announcement # None =>
                    /\ e.node_announcement[1].wellformed
                    /\ e.node_announcement[1].signature = e.node_announcement[1].node_id
                    /\ e.node_announcement[1].node_id = n

DeferredUpdatesParsed ==
    \A i \in 1..Len(pending_cannouncement) : \A d \in 1..2 :
        LET p == pending_cannouncement[i]
        IN  p.updates[d] # None =>
                /\ p.updates[d][1].wellformed
                /\ p.updates[d][1].chain_hash = ChainHash
                /\ p.updates[d][1].short_channel_id = p.short_channel_id
                /\ direction_of(p.updates[d][1].flags) = d - 1

DeferredUpdatesVerified ==
    \A i \in 1..Len(pending_cannouncement) : \A d \in 1..2 :
        LET p == pending_cannouncement[i]
        IN  p.updates[d] # None =>
                p.updates[d][1].signature = PendingKey(p, d - 1)

\* C7, as stated: every message held in the pending store (a pending
\* channel announcement, a deferred channel update, a buffered node
\* announcement) has been parsed and its signature verified.
C7_PendingStoreVerified ==
    /\ PendingAnnouncementsVerified
    /\ BufferedNodeAnnouncementsVerified
    /\ DeferredUpdatesParsed
    /\ DeferredUpdatesVerified

\* what handle_channel_update does establish before update_pending: every
\* pending channel announcement and every buffered node announcement has been
\* parsed and its signatures verified; a deferred channel update has been
\* parsed and is of the known chain, of the pending channel and of the
\* direction of its slot.
PendingStoreParsed ==
    /\ PendingAnnouncementsVerified
    /\ BufferedNodeAnnouncementsVerified
    /\ DeferredUpdatesParsed

-----------------------------------------------------------------------------
(* Properties of the replay of deferred updates (ReplaySpec)                *)

RECURSIVE FeedAll(_, _)
FeedAll(rs, fed) ==
    IF Len(fed) = 0 THEN rs
    ELSE FeedAll(handle_channel_update(rs, Head(fed)), Tail(fed))

\* the other order: the chain check succeeds first, then the same updates
\* are received in the same order, at the same clock reading
ConfirmFirst(local, fed) ==
    FeedAll(handle_pending_cannouncement(ReplayStart(local), 1, 1000,
                                         ReplayOutscript, Now0),
            fed)

\* the content of the broadcast store after the submissions s: under each
\* tag, the message submitted last
BroadcastStore(s) ==
    {[type |-> s[i].type, tag |-> s[i].tag, payload |-> s[i].payload] :
        i \in {i \in 1..Len(s) : \A j \in (i + 1)..Len(s) : s[j].tag # s[i].tag}}

ReplayEqual ==
    LET b == ConfirmFirst(last.local, last.fed)
    IN  /\ nodes = b.nodes
        /\ chanmap = b.chanmap
        /\ pending_cannouncement = b.pending
        /\ pending_node_map = b.pnmap
        /\ BroadcastStore(sent) = BroadcastStore(b.sent)

\* the update carries the signature of the node of its direction
ReplaySigned(m) ==
    m.signature = IF direction_of(m.flags) = 0
                  THEN Min(ReplayAnnouncement.node_id_1, ReplayAnnouncement.node_id_2)
                  ELSE Max(ReplayAnnouncement.node_id_1, ReplayAnnouncement.node_id_2)

\* C6, as stated: for any sequence of updates of a pending channel (either
\* direction, any timestamps, valid or invalid signatures), receiving them
\* while it is pending and then confirming it yields the same graph and
\* broadcast store as confirming it first and then receiving them.
C6_ReplayEquivalence ==
    last.op = "confirmed" => ReplayEqual

\* the extent of the divergence: the two orders yield the same graph, pending
\* store and broadcast store content when every update of the sequence
\* carries the signature of the node of its direction.
SignedReplayEquivalence ==
    (last.op = "confirmed" /\ \A i \in 1..Len(last.fed) : ReplaySigned(last.fed[i]))
        => ReplayEqual

-----------------------------------------------------------------------------
(* Properties of the route search (RouteSpec)                               *)

\* the half channel a hop travels: the one of its channel that leads to the
\* node of the hop
HopHalf(hop) ==
    chanmap[hop.channel_id]
        .half[IF chanmap[hop.channel_id].nodes[2] = hop.nodeid THEN 1 ELSE 2]

\* the node a hop leaves
HopFrom(hop) ==
    IF chanmap[hop.channel_id].nodes[2] = hop.nodeid
    THEN chanmap[hop.channel_id].nodes[1]
    ELSE chanmap[hop.channel_id].nodes[2]

\* the half channels <<from, to>> that are active and not unroutable at the
\* time of the query, of public channels only when asked so
RoutableHalves(public_only) ==
    {<<chanmap[x[1]].nodes[x[2]], chanmap[x[1]].nodes[3 - x[2]]>> :
        x \in {y \in (DOMAIN chanmap) \X {1, 2} :
                 /\ public_only => chanmap[y[1]].public
                 /\ chanmap[y[1]].half[y[2]].active
                 /\ chanmap[y[1]].half[y[2]].unroutable_until < now}}

\* the nodes from which a node of S is reached over at most k half channels of E
RECURSIVE Within(_, _, _)
Within(E, S, k) ==
    IF k = 0 THEN S
    ELSE Within(E, S \cup {e[1] : e \in {f \in E : f[2] \in S}}, k - 1)

\* Whether the source of query q is reached backwards from node n, where
\* total is due and risk has accrued, over at most k routable half channels
\* along which amount, scaled fees and risk stay below MAX_MSATOSHI.
RECURSIVE Feasible(_, _, _, _, _)
Feasible(n, total, risk, k, q) ==
    \/ n = q.source
    \/ /\ k > 0
       /\ \E i \in 1..Len(nodes[n].chans) :
             LET chan == chanmap[nodes[n].chans[i]]
                 d == IF chan.nodes[2] = n THEN 1 ELSE 2
                 c == chan.half[d]
                 fee == scale_fee(connection_fee(c, total), q.fuzz2,
                                  fuzz_rand(q.seed, chan.scid))
                 risk1 == BigAdd(risk, risk_fee(BigAdd(total, fee), c.delay,
                                 (q.riskfactor \div BLOCKS_PER_YEAR) \div 10000))
             IN  /\ c.active
                 /\ c.unroutable_until < now
                 /\ BigLess(BigAdd(BigAdd(total, fee), risk1), MAX_MSATOSHI)
                 /\ Feasible(chan.nodes[d], BigAdd(total, fee), risk1, k - 1, q)

C9_RouteValid ==
    (last.op = "get_route" /\ last.ret # None) =>
        LET hops == last.ret[1]
            k == Len(hops)
        IN  /\ k >= 1
            /\ hops[k].amount = last.query.msatoshi
            /\ hops[k].delay = last.query.final_cltv
            /\ hops[k].nodeid = last.query.destination
            /\ HopFrom(hops[1]) = last.query.source
            /\ \A i \in 1..(k - 1) :
                  LET c == HopHalf(hops[i + 1])
                  IN  /\ HopFrom(hops[i + 1]) = hops[i].nodeid
                      /\ hops[i].amount =
                            BigAdd(hops[i + 1].amount,
                                   BigAdd(BigOf(c.base_fee),
                                          BigDiv(BigMul(BigOf(c.proportional_fee),
                                                        hops[i + 1].amount),
                                                 1000000)))
                      /\ hops[i].delay = hops[i + 1].delay + c.delay

\* a route of two hops found with fuzz has been returned
C9_Witness ==
    /\ last.op = "get_route"
    /\ last.ret # None
    /\ last.query.fuzz2 # 0
    /\ Len(last.ret[1]) = 2
    /\ last.ret[1][1].amount # last.query.msatoshi

-----------------------------------------------------------------------------
(* Properties of the chain check (IngestSpec)                               *)

\* the step is handle_pending_cannouncement for the pending entry i
C11_PendingStep(i) ==
    /\ last.op = "idle"
    /\ last'.op = "handle_pending_cannouncement"
    /\ i = find_pending_cannouncement(RState, last'.scid)
    /\ i # 0

PendingIsLocal(p) == p.node_id_1 = LocalId \/ p.node_id_2 = LocalId

-----------------------------------------------------------------------------
(* Properties of the initial half channels (IngestSpec)                     *)

\* the step is handle_channel_update of a well-formed, correctly signed
\* update of the known chain that reaches the half channel d of a channel
\* to which no update was applied yet
C12_FirstUpdateStep(scid, d) ==
    /\ last.op = "idle"
    /\ last'.op = "handle_channel_update"
    /\ last'.msg.wellformed
    /\ last'.msg.chain_hash = ChainHash
    /\ last'.msg.short_channel_id = scid
    /\ direction_of(last'.msg.flags) = d - 1
    /\ scid \in DOMAIN chanmap
    /\ chanmap[scid].public \/ find_pending_cannouncement(RState, scid) = 0
    /\ chanmap[scid].half[d].channel_update = None
    /\ last'.msg.signature = chanmap[scid].nodes[d]

\* C12, as stated: a channel created at time now has both half channels
\* inactive with last_timestamp = now - prune_timeout/2 until an update is
\* applied, and the first correctly signed update of each direction is
\* applied whatever its timestamp.
C12_FirstUpdateAlwaysApplied ==
    [][\A scid \in Scids : \A d \in 1..2 :
          /\ (scid \notin DOMAIN chanmap /\ scid \in DOMAIN chanmap'
                /\ chanmap'[scid].half[d].channel_update = None)
              => /\ ~chanmap'[scid].half[d].active
                 /\ chanmap'[scid].half[d].last_timestamp = now - (PruneTimeout \div 2)
          /\ C12_FirstUpdateStep(scid, d)
              => /\ chanmap'[scid].half[d].channel_update = Some(last'.msg)
                 /\ chanmap'[scid].half[d].last_timestamp = last'.msg.timestamp]_vars

-----------------------------------------------------------------------------
(* The lifetime machine: channel 1 is created, updated, destroyed by a      *)
(* permanent failure or by route_prune, and created again.  last keeps the  *)
(* timestamps applied to its two directions: over the whole run (high) and  *)
(* since the channel was created (life).                                    *)

LifeUpdates ==
    {ChannelUpdate(1, d, ts, d + 1, FALSE, 1000, 100, 10, <<0, 0>>, "ok") :
        d \in {0, 1}, ts \in {T1, T2}}
    \cup {ChannelUpdate(1, 0, T2, 2, FALSE, 3000, 300, 30, <<0, 0>>, "ok")}

\* the updates of channel 1 applied by an operation, in order
RECURSIVE AppliedUpdates(_)
AppliedUpdates(trace) ==
    IF Len(trace) = 0 THEN <<>>
    ELSE IF Head(trace).code = "cu_applied" /\ Head(trace).msg.short_channel_id = 1
         THEN <<Head(trace).msg>> \o AppliedUpdates(Tail(trace))
         ELSE AppliedUpdates(Tail(trace))

\* the highest timestamp per direction once the updates ms are counted
RECURSIVE HighestAfter(_, _)
HighestAfter(high, ms) ==
    IF Len(ms) = 0 THEN high
    ELSE HighestAfter([high EXCEPT ![direction_of(Head(ms).flags) + 1] =
                          Max(@, Head(ms).timestamp)],
                      Tail(ms))

LifeInit ==
    /\ nodes = EmptyRState.nodes
    /\ chanmap = EmptyRState.chanmap
    /\ pending_cannouncement = <<>>
    /\ pending_node_map = [n \in NodeIds |-> <<>>]
    /\ now = Now0
    /\ aborted = FALSE
    /\ sent = <<>>
    /\ last = [op |-> "start", high |-> <<0, 0>>, life |-> <<0, 0>>,
               high_before |-> <<0, 0>>, life_before |-> <<0, 0>>,
               applied |-> <<>>]

\* the operation returns rs
LifeCommit(rs, op) ==
    /\ nodes' = rs.nodes
    /\ chanmap' = rs.chanmap
    /\ pending_cannouncement' = rs.pending
    /\ pending_node_map' = rs.pnmap
    /\ sent' = rs.sent
    /\ aborted' = rs.abort
    /\ now' = now
    /\ last' = [op |-> op,
                applied |-> AppliedUpdates(rs.trace),
                high_before |-> last.high,
                life_before |-> IF 1 \in DOMAIN chanmap THEN last.life ELSE <<0, 0>>,
                high |-> HighestAfter(last.high, AppliedUpdates(rs.trace)),
                life |-> IF 1 \in DOMAIN rs.chanmap
                         THEN HighestAfter(IF 1 \in DOMAIN chanmap THEN last.life
                                           ELSE <<0, 0>>,
                                           AppliedUpdates(rs.trace))
                         ELSE <<0, 0>>]

LifeNewChan ==
    /\ ~aborted
    /\ get_channel(RState, 1) = None
    /\ LifeCommit(new_chan(RState, 1, LocalId, 2, now), "new_chan")

LifeAnnounce ==
    /\ ~aborted
    /\ LifeCommit(handle_channel_announcement(RState, ReplayAnnouncement),
                  "handle_channel_announcement")

LifeConfirm ==
    /\ ~aborted
    /\ LifeCommit(handle_pending_cannouncement(RState, 1, 1000, ReplayOutscript, now),
                  "handle_pending_cannouncement")

LifeUpdate ==
    /\ ~aborted
    /\ \E m \in LifeUpdates :
          LifeCommit(handle_channel_update(RState, m), "handle_channel_update")

LifeFailure ==
    /\ ~aborted
    /\ \E failcode \in {{"PERM"}, {"PERM", "UPDATE"}} :
          LifeCommit(routing_failure(RState, LocalId, 1, failcode,
                        IF "UPDATE" \in failcode
                        THEN Some(ChannelUpdate(1, 0, T2, 1, FALSE, 1000, 100, 10,
                                                <<0, 0>>, "ok"))
                        ELSE None,
                        now),
                     "routing_failure")

LifePrune ==
    /\ ~aborted
    /\ LifeCommit(route_prune(RState, now), "route_prune")

LifeTick ==
    /\ ~aborted
    /\ \E t \in Instants : t > now /\ now' = t
    /\ UNCHANGED <<nodes, chanmap, pending_cannouncement, pending_node_map,
                   aborted, sent, last>>

LifeNext ==
    \/ LifeNewChan
    \/ LifeAnnounce
    \/ LifeConfirm
    \/ LifeUpdate
    \/ LifeFailure
    \/ LifePrune
    \/ LifeTick

LifeSpec == LifeInit /\ [][LifeNext]_vars


-----------------------------------------------------------------------------
(* Properties of the applied timestamps (LifeSpec)                          *)

\* C13, as stated: over the whole run, also across the destruction of the
\* channel and its later re-creation, every update applied to a direction
\* carries a timestamp above every timestamp applied to it before.
C13_AppliedIncreasingOverRun ==
    \A i \in 1..Len(last.applied) :
        last.applied[i].timestamp >
            last.high_before[direction_of(last.applied[i].flags) + 1]

\* C13, amended: every update applied to a direction carries a timestamp
\* above every timestamp applied to it since the channel was created; the
\* timestamps applied before the channel was destroyed are forgotten.
C13_AppliedIncreasingInLifetime ==
    \A i \in 1..Len(last.applied) :
        /\ last.applied[i].timestamp >
              last.life_before[direction_of(last.applied[i].flags) + 1]
        /\ \A j \in 1..(i - 1) :
              direction_of(last.applied[j].flags) = direction_of(last.applied[i].flags)
                  => last.applied[j].timestamp < last.applied[i].timestamp

\* an update is applied above an earlier one of the same lifetime
C13_Witness ==
    /\ Len(last.applied) > 0
    /\ last.life_before[direction_of(last.applied[1].flags) + 1] > 0
    /\ last.applied[1].timestamp >
          last.life_before[direction_of(last.applied[1].flags) + 1]

-----------------------------------------------------------------------------
(* The arrival machine: channel 1 is public and updates for it arrive in    *)
(* any order; last.fed is the sequence received so far.                     *)

ArrivalStart(local) ==
    LET rs == handle_pending_cannouncement(ReplayStart(local), 1, 1000,
                                           ReplayOutscript, Now0)
    IN  [rs EXCEPT !.sent = <<>>, !.trace = <<>>, !.ret = None]

ArrivalInit ==
    /\ \E local \in BOOLEAN :
          LET rs == ArrivalStart(local)
          IN  /\ nodes = rs.nodes
              /\ chanmap = rs.chanmap
              /\ pending_cannouncement = rs.pending
              /\ pending_node_map = rs.pnmap
              /\ last = [op |-> "public", local |-> local, fed |-> <<>>]
    /\ now = Now0
    /\ aborted = FALSE
    /\ sent = <<>>

ArrivalFeed ==
    /\ Len(last.fed) < MaxFed
    /\ \E m \in ReplayUpdates :
          ReplayCommit(handle_channel_update(RState, m), "public", Append(last.fed, m))

ArrivalSpec == ArrivalInit /\ [][ArrivalFeed]_vars

-----------------------------------------------------------------------------
(* Properties of the arrival order (ArrivalSpec)                            *)

\* the arrival orders of the sequence s
ArrivalOrders(s) ==
    {[i \in 1..Len(s) |-> s[p[i]]] :
        p \in {q \in [1..Len(s) -> 1..Len(s)] :
                 \A i, j \in 1..Len(s) : q[i] = q[j] => i = j}}

\* no two updates of s of one direction carry the same timestamp
NoTimestampTies(s) ==
    \A i, j \in 1..Len(s) :
        (i # j /\ s[i].wellformed /\ s[j].wellformed
               /\ direction_of(s[i].flags) = direction_of(s[j].flags))
            => s[i].timestamp # s[j].timestamp

\* C14: when the updates received for the public channel carry pairwise
\* distinct timestamps per direction, the graph reached (both half
\* channels of the channel, and the nodes) is the one reached from the same
\* start by the same updates in any other arrival order.
C14_ArrivalOrderIndependent ==
    (last.op = "public" /\ NoTimestampTies(last.fed)) =>
        \A s \in ArrivalOrders(last.fed) :
            LET b == FeedAll(ArrivalStart(last.local), s)
            IN  /\ chanmap = b.chanmap
                /\ nodes = b.nodes

\* three updates of one direction have arrived in descending timestamp
\* order, the first was applied and the later ones were dropped
C14_Witness ==
    /\ last.op = "public"
    /\ Len(last.fed) = 3
    /\ NoTimestampTies(last.fed)
    /\ \A i \in 1..3 : last.fed[i].wellformed /\ direction_of(last.fed[i].flags) = 0
    /\ last.fed[1].timestamp > last.fed[2].timestamp
    /\ last.fed[2].timestamp > last.fed[3].timestamp
    /\ chanmap[1].half[1].channel_update = Some(last.fed[1])

-----------------------------------------------------------------------------
(* Properties of the pending channel announcements (IngestSpec)             *)

AtMostOnePendingPerScid ==
    \A i, j \in 1..Len(pending_cannouncement) :
        pending_cannouncement[i].short_channel_id =
            pending_cannouncement[j].short_channel_id => i = j

\* the step is handle_channel_announcement of a message whose SCID has a
\* public channel or a pending entry
C15_KnownScidStep ==
    /\ last.op = "idle"
    /\ last'.op = "handle_channel_announcement"
    /\ last'.msg.wellformed
    /\ \/ /\ last'.msg.short_channel_id \in DOMAIN chanmap
          /\ chanmap[last'.msg.short_channel_id].public
       \/ \E i \in 1..Len(pending_cannouncement) :
             pending_cannouncement[i].short_channel_id = last'.msg.short_channel_id

\* C15: there is at most one pending announcement per SCID at every moment,
\* and a channel announcement whose SCID has a public channel or a pending
\* entry returns no SCID and leaves the pending entries (with their
\* deferred updates and timestamps), the pending node announcements and
\* the graph unchanged, and submits nothing.
C15_FirstAnnouncementWins ==
    /\ []AtMostOnePendingPerScid
    /\ [][C15_KnownScidStep =>
             /\ last'.ret = None
             /\ pending_cannouncement' = pending_cannouncement
             /\ pending_node_map' = pending_node_map
             /\ chanmap' = chanmap
             /\ nodes' = nodes
             /\ sent' = <<>>]_vars

\* an announcement was discarded because its SCID is pending, and the
\* pending entry holds a deferred update
C15_Witness ==
    /\ last.op = "handle_channel_announcement"
    /\ HasOutcome("ca_pending")
    /\ \E i \in 1..Len(pending_cannouncement) :
          /\ pending_cannouncement[i].short_channel_id = last.msg.short_channel_id
          /\ pending_cannouncement[i].announce # last.msg
          /\ pending_cannouncement[i].updates[1] # None

-----------------------------------------------------------------------------
(* Properties of the replay order at chain resolution (ResolveSpec)         *)

\* the step is handle_pending_cannouncement whose chain check succeeds for
\* the pending entry i
C16_ResolveStep(i) ==
    /\ last.op = "idle"
    /\ last'.op = "handle_pending_cannouncement"
    /\ i \in 1..Len(pending_cannouncement)
    /\ pending_cannouncement[i].short_channel_id = last'.scid
    /\ last'.outscript = <<Min(pending_cannouncement[i].bitcoin_key_1,
                               pending_cannouncement[i].bitcoin_key_2),
                           Max(pending_cannouncement[i].bitcoin_key_1,
                               pending_cannouncement[i].bitcoin_key_2)>>

\* the node announcement buffered in the k-th bucket of node n, if any
BufferedAnnouncement(n, k) ==
    IF Len(pending_node_map[n]) >= k
    THEN pending_node_map[n][k].node_announcement
    ELSE <<>>

\* the messages the pending entry p brings: its announcement, its deferred
\* updates of direction 0 and 1, the buffered node announcements of
\* node_id_1 and node_id_2
BufferedMessages(p) ==
    <<p.announce>> \o p.updates[1] \o p.updates[2]
        \o BufferedAnnouncement(p.node_id_1, 1)
        \o BufferedAnnouncement(p.node_id_2, IF p.node_id_2 = p.node_id_1 THEN 2 ELSE 1)

\* what replace_broadcast receives for the message m
SubmissionOfMessage(m) ==
    [type |-> m.type,
     tag |-> IF m.type = "channel_announcement" THEN <<m.short_channel_id>>
             ELSE IF m.type = "channel_update"
             THEN <<m.short_channel_id, direction_of(m.flags)>>
             ELSE <<m.node_id, 0, 0>>,
     payload |-> m]

\* the entries of the trace s whose message was accepted
RECURSIVE AcceptedOf(_)
AcceptedOf(s) ==
    IF Len(s) = 0 THEN <<>>
    ELSE IF Head(s).code \in AcceptCodes
         THEN <<Head(s).msg>> \o AcceptedOf(Tail(s))
         ELSE AcceptedOf(Tail(s))

\* C16, as stated: when the chain check succeeds, the announcement, the
\* deferred update of direction 0, the one of direction 1, the buffered
\* node announcement of node_id_1 and that of node_id_2 (those there are)
\* are submitted to the broadcast store, in this order.
C16_AllSubmittedInOrder ==
    [][\A i \in 1..Len(pending_cannouncement) :
          C16_ResolveStep(i) =>
              sent' = [k \in 1..Len(BufferedMessages(pending_cannouncement[i])) |->
                          SubmissionOfMessage(
                              BufferedMessages(pending_cannouncement[i])[k])]]_vars

\* C16, amended: when the chain check succeeds, these messages are handled
\* in this order, whatever their timestamps and arrival order; each is
\* then accepted or rejected by the rules of its handler, and the
\* submissions to the broadcast store are those of the accepted ones, in
\* the same order.
C16_HandledInOrder ==
    [][\A i \in 1..Len(pending_cannouncement) :
          C16_ResolveStep(i) =>
              /\ [k \in 1..Len(last'.trace) |-> last'.trace[k].msg] =
                    BufferedMessages(pending_cannouncement[i])
              /\ sent' = [k \in 1..Len(AcceptedOf(last'.trace)) |->
                             SubmissionOfMessage(AcceptedOf(last'.trace)[k])]]_vars


\* a chain check succeeded and brought all five messages, each accepted, the
\* update of direction 0 being newer than that of direction 1
C16_Witness ==
    /\ last.op = "handle_pending_cannouncement"
    /\ Len(last.trace) = 5
    /\ \A k \in 1..5 : last.trace[k].code \in AcceptCodes
    /\ last.trace[2].msg.timestamp > last.trace[3].msg.timestamp
    /\ Len(sent) = 5

-----------------------------------------------------------------------------
(* Properties of a failed chain check (ResolveSpec)                         *)

\* the SCIDs that have a pending entry in the list p
PendingScids(p) == {p[i].short_channel_id : i \in 1..Len(p)}

\* the step is handle_pending_cannouncement for the SCID of the pending
\* entry i
C17_OwnStep(i) ==
    /\ last.op = "idle"
    /\ last'.op = "handle_pending_cannouncement"
    /\ i \in 1..Len(pending_cannouncement)
    /\ pending_cannouncement[i].short_channel_id = last'.scid

\* the answer of the chain oracle is empty, or is not the script of the two
\* bitcoin keys of the pending entry i
C17_FailedStep(i) ==
    /\ C17_OwnStep(i)
    /\ last'.outscript # <<Min(pending_cannouncement[i].bitcoin_key_1,
                               pending_cannouncement[i].bitcoin_key_2),
                           Max(pending_cannouncement[i].bitcoin_key_1,
                               pending_cannouncement[i].bitcoin_key_2)>>

\* C17: when the chain oracle answers a pending SCID with an empty outscript
\* or a script other than that of the two bitcoin keys, the pending entry
\* goes with its deferred updates, the channels and nodes stay as they were
\* and nothing is submitted to the broadcast store; a pending entry leaves
\* the list only in a handle_pending_cannouncement of its own SCID, and
\* every such call removes it.
C17_FailedCheckDropsPending ==
    [][/\ \A i \in 1..Len(pending_cannouncement) :
            /\ C17_FailedStep(i) =>
                  /\ pending_cannouncement' = RemoveAt(pending_cannouncement, i)
                  /\ chanmap' = chanmap
                  /\ nodes' = nodes
                  /\ sent' = <<>>
                  /\ last'.ret = <<FALSE>>
            /\ C17_OwnStep(i) =>
                  /\ pending_cannouncement[i].short_channel_id
                        \notin PendingScids(pending_cannouncement')
                  /\ Len(pending_cannouncement') = Len(pending_cannouncement) - 1
       /\ \A scid \in PendingScids(pending_cannouncement)
                        \ PendingScids(pending_cannouncement') :
            /\ last.op = "idle"
            /\ last'.op = "handle_pending_cannouncement"
            /\ last'.scid = scid]_vars

\* channel 1 was just refused by the chain check while another announcement
\* is pending
C17_Witness ==
    /\ last.op = "handle_pending_cannouncement"
    /\ last.scid = 1
    /\ Len(last.trace) = 1
    /\ last.trace[1].code \in {"pc_spent", "pc_mismatch"}
    /\ 1 \notin DOMAIN chanmap
    /\ Len(pending_cannouncement) > 0
    /\ sent = <<>>

-----------------------------------------------------------------------------
(* Properties of routing failures (FailSpec)                                *)

\* the step is a routing_failure
FailureStep ==
    /\ last.op = "idle"
    /\ last'.op = "routing_failure"

\* the channels the failure f is about: those of the erring node when NODE
\* is set, else the channel scid when it connects to the erring node
AffectedChannels(f) ==
    IF f.erring \notin DOMAIN nodes THEN {}
    ELSE IF "NODE" \in f.failcode THEN Range(nodes[f.erring].chans)
    ELSE IF f.scid \in DOMAIN chanmap /\ f.erring \in Range(chanmap[f.scid].nodes)
         THEN {f.scid}
         ELSE {}

\* every hop of the route just returned travels a channel of the SCID map
RouteOverKnownChannels ==
    (last.op = "get_route" /\ last.ret # None) =>
        \A k \in 1..Len(last.ret[1]) : last.ret[1][k].channel_id \in DOMAIN chanmap

\* C18: a routing_failure with the PERM bit destroys the affected channels:
\* after the call they are in the SCID map no more, nor in the channel array
\* of any node, also when the UPDATE bit is set and a valid newer update
\* comes with it; and get_route returns no route over a channel that is
\* not in the SCID map.
C18_PermDestroys ==
    /\ [][(FailureStep /\ "PERM" \in last'.failcode /\ ~aborted') =>
             \A c \in AffectedChannels(last') :
                /\ c \notin DOMAIN chanmap'
                /\ \A n \in DOMAIN nodes' : c \notin Range(nodes'[n].chans)]_vars
    /\ []RouteOverKnownChannels

\* a permanent failure of channel 1 came with a newer update, which was
\* applied before the channel went
C18_Witness ==
    /\ last.op = "routing_failure"
    /\ last.failcode = {"PERM", "UPDATE"}
    /\ \E k \in 1..Len(last.trace) : last.trace[k].code = "cu_applied"
    /\ 1 \notin DOMAIN chanmap
    /\ chanmap # <<>>


\* the graph once the half channel that leaves the erring node is marked
\* unroutable until now + UnroutableSecs on each channel the failure f is
\* about
MarkedGraph(f) ==
    [c \in DOMAIN chanmap |->
        IF c \in AffectedChannels(f)
        THEN [chanmap[c] EXCEPT
                 !.half[IF chanmap[c].nodes[1] = f.erring THEN 1 ELSE 2]
                      .unroutable_until = now + UnroutableSecs]
        ELSE chanmap[c]]

\* no hop of the route just returned travels a half channel that is still
\* marked unroutable
RouteAvoidsUnroutable ==
    (last.op = "get_route" /\ last.ret # None) =>
        \A k \in 1..Len(last.ret[1]) : HopHalf(last.ret[1][k]).unroutable_until < now

\* C19, as stated: a routing_failure without the PERM bit at time t sets
\* unroutable_until to t + 20 on the half channel that leaves the erring
\* node, on each affected channel, and changes nothing else; the graph is
\* unchanged when the erring node or the channel is unknown or the channel
\* does not connect to the erring node; get_route never travels a half
\* channel at a time up to its unroutable_until.
C19_TemporaryFailureMarksOnly ==
    /\ [][(FailureStep /\ "PERM" \notin last'.failcode) =>
             (chanmap' = MarkedGraph(last') /\ nodes' = nodes)]_vars
    /\ []RouteAvoidsUnroutable

\* C19, amended: the same, for the failures whose channel_update, if any,
\* is not applied.
C19_TemporaryFailureMarksUnlessUpdated ==
    /\ [][(/\ FailureStep
           /\ "PERM" \notin last'.failcode
           /\ \A k \in 1..Len(last'.trace) : last'.trace[k].code # "cu_applied") =>
             (chanmap' = MarkedGraph(last') /\ nodes' = nodes)]_vars
    /\ []RouteAvoidsUnroutable

\* one second after the unroutable period of a failure at Now0, a route
\* travels the half channel that was marked
C19_Witness ==
    /\ last.op = "get_route"
    /\ last.ret # None
    /\ now = Now0 + UnroutableSecs + 1
    /\ \E k \in 1..Len(last.ret[1]) :
          HopHalf(last.ret[1][k]).unroutable_until = Now0 + UnroutableSecs


\* the step is a routing_failure with UPDATE set and PERM clear that
\* carries a channel_update of the channel c, for the half channel d that
\* leaves the erring node, and c is a channel the failure is about
C20_UpdateStep(c, d) ==
    /\ FailureStep
    /\ "UPDATE" \in last'.failcode
    /\ "PERM" \notin last'.failcode
    /\ last'.update # None
    /\ last'.update[1].type = "channel_update"
    /\ last'.update[1].short_channel_id = c
    /\ direction_of(last'.update[1].flags) = d - 1
    /\ c \in AffectedChannels(last')
    /\ chanmap[c].nodes[d] = last'.erring

-----------------------------------------------------------------------------
(* Properties of a rejected channel announcement (ResolveSpec)              *)

\* the announcement m does not parse, is of another chain, sets an even
\* feature bit, or one of its four signatures is not that of its key
AnnouncementRejectable(m) ==
    \/ ~m.wellformed
    \/ m.chain_hash # ChainHash
    \/ \E b \in m.features : b % 2 = 0
    \/ m.node_signature_1 # m.node_id_1
    \/ m.node_signature_2 # m.node_id_2
    \/ m.bitcoin_signature_1 # m.bitcoin_key_1
    \/ m.bitcoin_signature_2 # m.bitcoin_key_2

\* C21: a channel announcement that fails to parse, names an unknown chain,
\* sets an unsupported even feature bit or fails the signature check returns
\* no SCID and leaves the channels, the nodes, the pending announcements, the
\* pending node buckets and the broadcast store as they were.
C21_RejectedAnnouncementChangesNothing ==
    [][(/\ last.op = "idle"
        /\ last'.op = "handle_channel_announcement"
        /\ AnnouncementRejectable(last'.msg)) =>
          /\ last'.ret = None
          /\ chanmap' = chanmap
          /\ nodes' = nodes
          /\ pending_cannouncement' = pending_cannouncement
          /\ pending_node_map' = pending_node_map
          /\ sent' = <<>>]_vars

\* an announcement of a SCID that is neither known nor pending was just
\* refused for its signature, while another announcement is pending
C21_Witness ==
    /\ last.op = "handle_channel_announcement"
    /\ HasOutcome("ca_badsig")
    /\ last.ret = None
    /\ Len(pending_cannouncement) > 0
    /\ sent = <<>>

-----------------------------------------------------------------------------
(* Properties of the node announcement dispatch (IngestSpec)                *)

\* the step is handle_node_announcement of a message that parses, sets no
\* even feature bit and carries the signature of its node
C22_SignedStep ==
    /\ last.op = "idle"
    /\ last'.op = "handle_node_announcement"
    /\ last'.msg.wellformed
    /\ \A b \in last'.msg.features : b % 2 = 1
    /\ last'.msg.signature = last'.msg.node_id

\* nothing but the record of the call changes
C22_Discarded ==
    /\ nodes' = nodes
    /\ chanmap' = chanmap
    /\ pending_cannouncement' = pending_cannouncement
    /\ pending_node_map' = pending_node_map
    /\ sent' = <<>>

\* the node n takes the fields of the message m, which is broadcast
C22_Replaced(n, m) ==
    /\ nodes' = [nodes EXCEPT ![n] =
                    [@ EXCEPT !.alias = Some(m.alias),
                              !.rgb_color = Some(m.rgb_color),
                              !.addresses =
                                  IF read_addresses(m.addresses) = None THEN <<>>
                                  ELSE read_addresses(m.addresses)[1],
                              !.last_timestamp = m.timestamp,
                              !.node_announcement = Some(m)]]
    /\ chanmap' = chanmap
    /\ pending_cannouncement' = pending_cannouncement
    /\ pending_node_map' = pending_node_map
    /\ sent' = <<[type |-> "node_announcement", tag |-> <<n, 0, 0>>, payload |-> m]>>

\* the cases of a node that is not in the graph: with a bucket the message
\* is buffered or not, and if it is it is newer than the one buffered;
\* without one it is discarded
C22_AbsentNode(n, m) ==
    /\ nodes' = nodes
    /\ chanmap' = chanmap
    /\ pending_cannouncement' = pending_cannouncement
    /\ sent' = <<>>
    /\ IF Len(pending_node_map[n]) = 0
       THEN pending_node_map' = pending_node_map
       ELSE \/ pending_node_map' = pending_node_map
            \/ /\ pending_node_map[n][1].timestamp < m.timestamp
               /\ pending_node_map' =
                     [pending_node_map EXCEPT ![n][1].timestamp = m.timestamp,
                                              ![n][1].node_announcement = Some(m)]

\* the state in which the first bucket of node n holds no announcement
C22_Emptied(n) == [RState EXCEPT !.pnmap[n][1].node_announcement = None]

\* the announcement buffered for node n, replayed by this successful chain
\* check, leaves the node as the same announcement received right after the
\* chain check would
C22_ReplayAsReceivedAfter ==
    \A i \in 1..Len(pending_cannouncement) :
       \A n \in {pending_cannouncement[i].node_id_1, pending_cannouncement[i].node_id_2} :
          (/\ C16_ResolveStep(i)
           /\ Len(pending_node_map[n]) > 0
           /\ pending_node_map[n][1].node_announcement # None) =>
              nodes'[n] =
                 handle_node_announcement(
                    handle_pending_cannouncement(C22_Emptied(n), last'.scid, 1000,
                                                 last'.outscript, now),
                    pending_node_map[n][1].node_announcement[1]).nodes[n]

\* C22, as stated: a correctly signed node announcement of an absent node is
\* buffered in the bucket of its id only if newer than the one buffered
\* and is discarded when there is no bucket; of a known node it is discarded
\* when its timestamp is not above last_timestamp, and otherwise replaces
\* alias, colour, addresses, timestamp and bytes and is broadcast; and a
\* buffered announcement that is replayed leaves the node as the same
\* announcement received right after the chain check.
C22_NodeAnnouncementDispatch ==
    [][/\ C22_SignedStep =>
            IF last'.msg.node_id \notin DOMAIN nodes
            THEN C22_AbsentNode(last'.msg.node_id, last'.msg)
            ELSE IF last'.msg.timestamp <= nodes[last'.msg.node_id].last_timestamp
            THEN C22_Discarded
            ELSE C22_Replaced(last'.msg.node_id, last'.msg)
       /\ C22_ReplayAsReceivedAfter]_vars

\* C22, amended: the same, but a bucket that holds no announcement counts
\* as holding one of timestamp 0, so that it buffers exactly the messages
\* of a timestamp above that of the bucket; and the announcement of a known
\* node that is newer is discarded too when its addresses do not parse.
C22_NodeAnnouncementDispatchParsed ==
    [][/\ C22_SignedStep =>
            IF last'.msg.node_id \notin DOMAIN nodes
            THEN /\ C22_AbsentNode(last'.msg.node_id, last'.msg)
                 /\ (/\ Len(pending_node_map[last'.msg.node_id]) > 0
                     /\ pending_node_map[last'.msg.node_id][1].timestamp
                           < last'.msg.timestamp) =>
                       pending_node_map'[last'.msg.node_id][1].node_announcement
                          = Some(last'.msg)
            ELSE IF last'.msg.timestamp <= nodes[last'.msg.node_id].last_timestamp
            THEN C22_Discarded
            ELSE IF read_addresses(last'.msg.addresses) = None
            THEN C22_Discarded
            ELSE C22_Replaced(last'.msg.node_id, last'.msg)
       /\ C22_ReplayAsReceivedAfter]_vars

\* a newer announcement of the known node 2 was applied and broadcast
C22_Witness ==
    /\ last.op = "handle_node_announcement"
    /\ HasOutcome("na_applied")
    /\ 2 \in DOMAIN nodes
    /\ nodes[2].node_announcement = Some(last.msg)
    /\ nodes[2].last_timestamp = last.msg.timestamp
    /\ Len(sent) = 1

-----------------------------------------------------------------------------
(* Properties of the pending node buckets (ResolveSpec)                     *)

\* a pending announcement of the list p names the node n
NamedByPending(p, n) ==
    \E j \in 1..Len(p) : p[j].node_id_1 = n \/ p[j].node_id_2 = n

\* C23: once handle_pending_cannouncement has resolved a pending SCID,
\* whatever the answer of the chain oracle, a node of that announcement
\* keeps a bucket only if an announcement still pending names it; and a
\* correctly signed node announcement of a node that is absent and named
\* by no pending announcement is dropped as an orphan, not buffered.
C23_NoBucketWithoutPending ==
    [][/\ \A i \in 1..Len(pending_cannouncement) :
            C17_OwnStep(i) =>
               \A n \in {pending_cannouncement[i].node_id_1,
                         pending_cannouncement[i].node_id_2} :
                  Len(pending_node_map'[n]) > 0 =>
                     NamedByPending(pending_cannouncement', n)
       /\ (/\ C22_SignedStep
           /\ last'.msg.node_id \notin DOMAIN nodes
           /\ ~NamedByPending(pending_cannouncement, last'.msg.node_id)) =>
              /\ last'.trace[1].code = "na_orphan"
              /\ pending_node_map' = pending_node_map]_vars

-----------------------------------------------------------------------------
(* Properties of the deferred updates (ReplaySpec)                          *)

\* the updates of the sequence s that parse, are of the known chain, of
\* direction d and of a timestamp of at least low, in order
RECURSIVE ReceivedFor(_, _, _)
ReceivedFor(s, d, low) ==
    IF Len(s) = 0 THEN <<>>
    ELSE IF /\ Head(s).wellformed
            /\ Head(s).chain_hash = ChainHash
            /\ Head(s).flags % 2 = d
            /\ Head(s).timestamp >= low
         THEN <<Head(s)>> \o ReceivedFor(Tail(s), d, low)
         ELSE ReceivedFor(Tail(s), d, low)

\* the first update of the sequence s among those of the greatest timestamp
NewestOf(s) ==
    IF Len(s) = 0 THEN <<>>
    ELSE <<s[CHOOSE k \in 1..Len(s) :
                /\ \A j \in 1..Len(s) : s[j].timestamp <= s[k].timestamp
                /\ \A j \in 1..(k - 1) : s[j].timestamp < s[k].timestamp]>>

\* while channel 1 is pending its slots hold the newest of the updates
\* received of a timestamp of at least low, and neither the graph nor the
\* broadcast store has changed
DeferredNewest(low) ==
    last.op = "pending" =>
        /\ Len(pending_cannouncement) = 1
        /\ \A d \in {0, 1} :
              pending_cannouncement[1].updates[d + 1] =
                 NewestOf(ReceivedFor(last.fed, d, low))
        /\ chanmap = ReplayStart(last.local).chanmap
        /\ nodes = ReplayStart(last.local).nodes
        /\ sent = <<>>

\* C24, as stated: while a SCID is pending, the slot of each direction holds
\* the update of the greatest timestamp among those received for that
\* direction since the announcement was accepted, the earlier one of two of
\* the same timestamp, and buffering changes neither the graph nor the
\* broadcast store.
C24_SlotHoldsNewest == DeferredNewest(0)

\* C24, amended: the same for the updates of a timestamp above 0; an update
\* of timestamp 0 is never buffered.
C24_SlotHoldsNewestPositive == DeferredNewest(1)

\* three updates of one direction were received, the first one newer than
\* the second, and the slot holds the first
C24_Witness ==
    /\ last.op = "pending"
    /\ Len(last.fed) = 3
    /\ last.fed[1].flags % 2 = last.fed[2].flags % 2
    /\ last.fed[1].flags % 2 = last.fed[3].flags % 2
    /\ last.fed[1].timestamp > last.fed[2].timestamp
    /\ last.fed[1].timestamp >= last.fed[3].timestamp
    /\ pending_cannouncement[1].updates[(last.fed[1].flags % 2) + 1] = <<last.fed[1]>>

-----------------------------------------------------------------------------
(* Properties of an accepted channel update (IngestSpec)                    *)

\* C25: once a channel update is accepted, the half channel of its direction
\* holds the values of the message: base fee, proportional fee, delay,
\* timestamp and the whole 64-bit htlc_minimum_msat; unroutable_until is 0;
\* and it is active exactly when the message is not disabled and its
\* proportional fee is below 2^24.
C25_HalfHoldsMessageValues ==
    [][(/\ last.op = "idle"
        /\ last'.op = "handle_channel_update"
        /\ last'.trace[1].code = "cu_applied") =>
          LET m == last'.msg
              c == chanmap'[m.short_channel_id].half[(m.flags % 2) + 1]
          IN  /\ c.base_fee = m.fee_base_msat
              /\ c.proportional_fee = m.fee_proportional_millionths
              /\ c.delay = m.expiry
              /\ c.last_timestamp = m.timestamp
              /\ <<0, c.htlc_minimum_msat>> = m.htlc_minimum_msat
              /\ c.unroutable_until = 0
              /\ c.active = (/\ ~disabled_in(m.flags)
                             /\ m.fee_proportional_millionths < MAX_PROPORTIONAL_FEE)]_vars

-----------------------------------------------------------------------------
(* Properties of the channels route_prune leaves (Spec)                     *)

\* the channels of the graph that are public and have both half channels
\* older than t - prune_timeout
StaleBefore(t) ==
    {scid \in DOMAIN chanmap :
        /\ chanmap[scid].public
        /\ chanmap[scid].half[1].last_timestamp < t - PruneTimeout
        /\ chanmap[scid].half[2].last_timestamp < t - PruneTimeout}

\* C26: route_prune at time now destroys exactly the channels that, in the
\* state before it, are public and have last_timestamp < now - prune_timeout
\* on both half channels; a channel that is not public, or that has a half
\* channel with last_timestamp >= now - prune_timeout, is still in the graph
\* with both half channels unchanged.
C26_PruneDestroysOnlyStalePublic ==
    [][(last.op = "idle" /\ last'.op = "route_prune") =>
          /\ DOMAIN chanmap' = DOMAIN chanmap \ StaleBefore(now)
          /\ \A scid \in DOMAIN chanmap \ StaleBefore(now) :
                chanmap'[scid].half = chanmap[scid].half]_vars

\* route_prune has destroyed a channel and has left a public channel with
\* exactly one stale half channel
C26_Witness ==
    /\ last.op = "route_prune"
    /\ last.trace[1].code = "rp_pruned"
    /\ last.trace[1].msg # {}
    /\ \E scid \in DOMAIN chanmap :
          /\ chanmap[scid].public
          /\ (chanmap[scid].half[1].last_timestamp < now - PruneTimeout)
             # (chanmap[scid].half[2].last_timestamp < now - PruneTimeout)

-----------------------------------------------------------------------------
(* Properties of the cheapest route (RouteSpec)                             *)

\* The walks over routable half channels that lead from src to the node n,
\* counted backwards from n where total is due after h hops: the set of
\* <<hops, total>> of the walks of at most ROUTING_MAX_HOPS hops along
\* which every running total, plus slack for each hop made, stays below
\* MAX_MSATOSHI.
RECURSIVE WalkTotals(_, _, _, _, _)
WalkTotals(n, total, h, src, slack) ==
    (IF h >= 1 /\ n = src THEN {<<h, total>>} ELSE {})
    \cup
    (IF h >= ROUTING_MAX_HOPS THEN {}
     ELSE UNION {
        LET chan == chanmap[nodes[n].chans[i]]
            d == IF chan.nodes[2] = n THEN 1 ELSE 2
            c == chan.half[d]
            due == BigAdd(total, BigAdd(BigOf(c.base_fee),
                              BigDiv(BigMul(BigOf(c.proportional_fee), total),
                                     1000000)))
        IN  IF /\ c.active
               /\ c.unroutable_until < now
               /\ BigLess(BigAdd(due, BigOf(slack * (h + 1))), MAX_MSATOSHI)
            THEN WalkTotals(chan.nodes[d], due, h + 1, src, slack)
            ELSE {}
        : i \in 1..Len(nodes[n].chans)})

\* the walks of the query q
WalksOf(q, slack) ==
    IF q.destination \in DOMAIN nodes /\ BigLess(q.msatoshi, MAX_MSATOSHI)
    THEN WalkTotals(q.destination, q.msatoshi, 0, q.source, slack)
    ELSE {}

\* what the source pays for the route hops: the amount of the first hop
\* and the fee of the half channel the first hop travels
RouteTotal(hops) ==
    BigAdd(hops[1].amount,
           BigAdd(BigOf(HopHalf(hops[1]).base_fee),
                  BigDiv(BigMul(BigOf(HopHalf(hops[1]).proportional_fee),
                                hops[1].amount),
                         1000000)))

\* the route hops is a cheapest walk of W, and a shortest of the cheapest
CheapestIn(hops, W) ==
    /\ <<Len(hops), RouteTotal(hops)>> \in W
    /\ \A w \in W :
          /\ ~BigLess(w[2], RouteTotal(hops))
          /\ w[2] = RouteTotal(hops) => w[1] >= Len(hops)

\* get_route has answered a query with risk factor 0 and no fuzz
PlainQueryAnswered ==
    /\ last.op = "get_route"
    /\ ~aborted
    /\ last.query.riskfactor = 0
    /\ last.query.fuzz2 = 0

\* C27, as stated: with risk factor 0 and no fuzz, a returned route costs
\* the minimum over all walks of 1..ROUTING_MAX_HOPS routable half channels
\* from source to destination whose running totals stay below 2^40, with
\* the fewest hops among the cheapest; and none is returned only when no
\* such walk exists.
C27_CheapestWalk ==
    PlainQueryAnswered =>
        /\ last.ret # None => CheapestIn(last.ret[1], WalksOf(last.query, 0))
        /\ last.ret = None => WalksOf(last.query, 0) = {}

\* C27, amended: with risk factor 0 and no fuzz, a returned route costs the
\* minimum over all walks of 1..ROUTING_MAX_HOPS routable half channels
\* from source to destination whose running total after k hops stays below
\* 2^40 - k, with the fewest hops among the cheapest; and between two
\* different nodes none is returned only when no such walk exists.
C27_CheapestWalkBelowCap ==
    PlainQueryAnswered =>
        /\ last.ret # None => CheapestIn(last.ret[1], WalksOf(last.query, 1))
        /\ (last.ret = None /\ last.query.source # last.query.destination)
              => WalksOf(last.query, 1) = {}

\* a route of two hops has been returned although a walk of one hop exists,
\* which costs more
C27_Witness ==
    /\ PlainQueryAnswered
    /\ last.ret # None
    /\ Len(last.ret[1]) = 2
    /\ \E w \in WalksOf(last.query, 1) :
          w[1] = 1 /\ BigLess(RouteTotal(last.ret[1]), w[2])

-----------------------------------------------------------------------------
(* Properties of the assertions of connection_fee (LineSpec)                *)

\* the query q is between two different nodes of the graph
Searched(q) ==
    /\ q.source \in DOMAIN nodes
    /\ q.destination \in DOMAIN nodes
    /\ q.source # q.destination
    /\ BigLess(q.msatoshi, MAX_MSATOSHI)

\* the table find_route has filled for the query q
SearchOf(q) ==
    bfg_runs([bfg |-> [clear_bfg(RState) EXCEPT ![q.destination][0] =
                          [total |-> q.msatoshi, risk |-> <<>>, prev |-> None]],
              ok |-> TRUE],
             RState, NodeOrder(RState, q.descending), 0, now,
             (q.riskfactor \div BLOCKS_PER_YEAR) \div 10000, q.fuzz2, q.seed)

\* the result of find_route for the query q once the table st is filled
FoundIn(q, st) == route_of_bfg(RState, st, q.source, q.destination)

\* the hops get_route lays out for the query q over the route of r
HopsOver(q, r) ==
    route_hops(RState, r.route, Len(r.route), q.destination,
               q.msatoshi, q.final_cltv, [hops |-> <<>>, asserts |-> TRUE])

\* no assertion of connection_fee fails over the route of r, if there is one
FeeAssertsOver(q, r) == r.found => HopsOver(q, r).asserts

\* no assertion of connection_fee fails for the query q, whose table is st
FeeAssertsIn(q, st) == st.ok /\ FeeAssertsOver(q, FoundIn(q, st))

\* C28: every active half channel has proportional_fee < 2^24, and in
\* get_route no assertion of connection_fee fails, neither in the search
\* nor when the amounts of the hops are computed from the unscaled policy,
\* whatever the risk factor and the fuzz.
C28_FeeAssertionsHold ==
    /\ \A scid \in DOMAIN chanmap : \A d \in 1..2 :
          chanmap[scid].half[d].active =>
              chanmap[scid].half[d].proportional_fee < MAX_PROPORTIONAL_FEE
    /\ (last.op = "get_route" /\ Searched(last.query)) =>
          FeeAssertsIn(last.query, SearchOf(last.query))

-----------------------------------------------------------------------------
(* Properties of the route laid out (LineSpec)                              *)

\* the channels a and b have a node in common
ShareNode(a, b) ==
    \E i \in 1..2, j \in 1..2 : chanmap[a].nodes[i] = chanmap[b].nodes[j]

\* the hops h of get_route over the route of r lead to the destination and
\* back to the source, and a route that is returned is h
HopsWell(q, r, h) ==
    /\ Len(h.hops) = r.best
    /\ h.hops[r.best].nodeid = q.destination
    /\ h.hops[r.best].channel_id = r.route[r.best]
    /\ h.first = q.source
    /\ last.ret # None => last.ret[1] = h.hops

\* r, the result of find_route, is a route of 1..ROUTING_MAX_HOPS channels
\* that was laid out over finite entries down to the destination, that
\* starts at the source and whose consecutive channels share a node
RouteWell(q, r) ==
    /\ r.asserts
    /\ r.best \in 1..ROUTING_MAX_HOPS
    /\ Len(r.route) = r.best
    /\ q.source \in {chanmap[r.route[1]].nodes[1], chanmap[r.route[1]].nodes[2]}
    /\ \A i \in 1..(Len(r.route) - 1) : ShareNode(r.route[i], r.route[i + 1])
    /\ HopsWell(q, r, HopsOver(q, r))

\* a route is found exactly when the table holds a finite entry for the
\* source, and then it is well laid out
FoundWell(q, st, r) ==
    /\ r.found <=> \E i \in 1..ROUTING_MAX_HOPS :
                      BigLess(st.bfg[q.source][i].total, INFINITE)
    /\ r.found => RouteWell(q, r)
    /\ ~r.found => last.ret = None

\* the table st has levels 0..ROUTING_MAX_HOPS only, and its route is well
\* laid out
WellLaid(q, st) ==
    /\ \A n \in DOMAIN st.bfg : DOMAIN st.bfg[n] = 0..ROUTING_MAX_HOPS
    /\ FoundWell(q, st, FoundIn(q, st))

\* C29: whenever the search leaves a finite entry for the source of the
\* query, following the previous channels from the source at level best
\* down to level 0 visits finite entries only and ends at the destination,
\* so that the assertions at the end of find_route and of get_route hold:
\* the route has between 1 and ROUTING_MAX_HOPS hops, its first channel is
\* incident on the source, consecutive channels share a node, the last hop
\* leads to the destination, and no level above ROUTING_MAX_HOPS exists;
\* a route that is returned is that route.
C29_RouteLaidOutToDestination ==
    (last.op = "get_route" /\ Searched(last.query)) =>
        WellLaid(last.query, SearchOf(last.query))

\* a route of ROUTING_MAX_HOPS hops has been returned
C29_Witness ==
    /\ last.op = "get_route"
    /\ last.ret # None
    /\ Len(last.ret[1]) = ROUTING_MAX_HOPS

====
